---- MODULE Spec2Model ----
(***************************************************************************)
(* A model of dbgen's data-generation engine:                              *)
(*   - src/src/value.rs : the 65-bit Number, the Value variant, and their  *)
(*     pure operations (specification SpecValue);                          *)
(*   - src/src/cli.rs   : run (the scheduler), Env::write_data_file (the   *)
(*     shard writer), FileWriterEnv and WriteCountWrapper (specification   *)
(*     Spec).                                                              *)
(* Integer widths are scaled: an i64 is MsbBits bits wide, an i128 is      *)
(* 2*MsbBits bits wide and an f64 carries MsbBits-1 significant bits, so   *)
(* that the 65-bit/128-bit/53-bit relations of the code are kept.          *)
(***************************************************************************)
EXTENDS Integers, Sequences, FiniteSets, TLC

VARIABLES
    call,            \* the last pure operation applied: [op, args, ret]
    args,            \* cli.rs Args of this run
    run_pc,          \* position of run()
    progress_pc,     \* position of the progress bar thread
    poll,            \* progress bar thread: the values loaded and the bars
    seeding_rng,     \* run: StdRng seeded from meta_seed
    global_rng,      \* run: the RNG of the global expressions, if any
    iv,              \* run: the collected shard descriptors
    res,             \* run: result of pool.install
    shard,           \* per shard: position inside write_data_file
    state,           \* per shard: State (row_num, sub_row_num, rng)
    fwe,             \* per shard: FileWriterEnv (visited, actual_rows, files)
    WRITE_FINISHED,  \* cli.rs static
    WRITE_PROGRESS,  \* cli.rs static
    WRITTEN_SIZE     \* cli.rs static

pureVars == <<call>>
runVars == <<args, run_pc, progress_pc, poll, seeding_rng, global_rng, iv, res, shard, state, fwe,
             WRITE_FINISHED, WRITE_PROGRESS, WRITTEN_SIZE>>
vars == <<call, args, run_pc, progress_pc, poll, seeding_rng, global_rng, iv, res, shard, state, fwe,
          WRITE_FINISHED, WRITE_PROGRESS, WRITTEN_SIZE>>

(***************************************************************************)
(* Bounds                                                                  *)
(***************************************************************************)
\* width of the msb field (i64 in the code)
MsbBits == 3
\* largest --files-count, --inserts-count, --rows-count and --jobs tried
MaxFiles == 2
MaxInserts == 2
MaxRows == 2
MaxJobs == 2
\* capacity of a BufWriter, in bytes (8 KiB in std, scaled)
BufCap == 32
\* longest byte string, and longest argument list of try_sql_concat, tried
MaxLen == 2
MaxItems == 2
MaxWork == 8
\* most main rows of a run whose progress bar thread polls
MaxPollWork == 4

None == [tag |-> "None"]
Some(v) == [tag |-> "Some", v |-> v]

(***************************************************************************)
(* Machine integers                                                        *)
(***************************************************************************)
I64_MIN == -(2 ^ (MsbBits - 1))
I64_MAX == 2 ^ (MsbBits - 1) - 1
I64 == I64_MIN .. I64_MAX
U64_MAX == 2 ^ MsbBits - 1
U64 == 0 .. U64_MAX
I128_MIN == -(2 ^ (2 * MsbBits - 1))
I128_MAX == 2 ^ (2 * MsbBits - 1) - 1
I128 == I128_MIN .. I128_MAX

\* two's-complement wrap of an integer into i64
wrap_i64(x) == ((x - I64_MIN) % (2 ^ MsbBits)) + I64_MIN
wrapping_add(x, y) == wrap_i64(x + y)
wrapping_neg_i64(x) == wrap_i64(-x)
\* ToPrimitive::to_i64 on an i128
to_i64(v) == IF v \in I64 THEN Some(v) ELSE None
\* i128::checked_add / checked_sub / checked_mul
checked(op, x, y) ==
    LET r == CASE op = "add" -> x + y
               [] op = "sub" -> x - y
               [] op = "mul" -> x * y
    IN IF r \in I128 THEN Some(r) ELSE None

(***************************************************************************)
(* f64: integer-valued doubles, rounded to nearest, ties to even           *)
(***************************************************************************)
F64_MANT == MsbBits - 1

RECURSIVE quantum(_, _)
\* the spacing of doubles around magnitude m: the least power of two q with
\* m < q * 2^F64_MANT
quantum(m, q) == IF m < q * (2 ^ F64_MANT) THEN q ELSE quantum(m, 2 * q)

round_f64(x) ==
    LET m == IF x < 0 THEN -x ELSE x
        q == quantum(m, 1)
        lo == (m \div q) * q
        rem == m - lo
        up == IF 2 * rem > q THEN TRUE
              ELSE IF 2 * rem < q THEN FALSE
              ELSE ((m \div q) % 2) = 1
        r == IF up THEN lo + q ELSE lo
    IN IF x < 0 THEN -r ELSE r

(***************************************************************************)
(* value.rs: I65 and Number                                                *)
(***************************************************************************)
I65 == [lsbit : BOOLEAN, msb : I64]
bit(b) == IF b THEN 1 ELSE 0

i128_from_shift(v) == 2 * v.msb
\* impl From<I65> for i128
i128_from(v) == 2 * v.msb + bit(v.lsbit)
\* impl From<I65> for f64
f64_from_i65(v) == round_f64(round_f64(v.msb) * 2 + bit(v.lsbit))

wrapping_neg_msb(v) == [lsbit |-> v.lsbit, msb |-> wrapping_neg_i64(v.msb)]
\* I65::wrapping_neg
wrapping_neg(v) ==
    [lsbit |-> v.lsbit, msb |-> wrapping_neg_i64(wrapping_add(bit(v.lsbit), v.msb))]

try_from_i128_trunc(v) == Some([lsbit |-> (v % 2) # 0, msb |-> wrap_i64(v \div 2)])
\* I65::try_from_i128
try_from_i128(v) ==
    LET m == to_i64(v \div 2)
    IN IF m.tag = "None" THEN None ELSE Some([lsbit |-> (v % 2) # 0, msb |-> m.v])

N_Int(i) == [tag |-> "Int", i |-> i]
N_Float(f) == [tag |-> "Float", f |-> f]
IntNumber == {N_Int(i) : i \in I65}

\* impl From<N> for f64
f64_from(n) == IF n.tag = "Int" THEN f64_from_i65(n.i) ELSE n.f

\* Number::to::<i128>
to_i128(n) ==
    IF n.tag = "Int" THEN Some(i128_from(n.i))
    ELSE IF n.f \in I128 THEN Some(n.f) ELSE None

\* impl_from_int_for_number!(u64), impl_from_int_for_number!(i64)
number_from_uint(value) == N_Int([lsbit |-> (value % 2) # 0, msb |-> wrap_i64(value \div 2)])
number_from_int(value) == N_Int([lsbit |-> (value % 2) # 0, msb |-> wrap_i64(value \div 2)])

f64_op(op, x, y) ==
    round_f64(CASE op = "add" -> x + y
                [] op = "sub" -> x - y
                [] op = "mul" -> x * y)

\* impl_number_bin_op!
bin_op(op, self, other) ==
    LET c == IF self.tag = "Int" /\ other.tag = "Int"
             THEN LET w == checked(op, i128_from(self.i), i128_from(other.i))
                  IN IF w.tag = "None" THEN None ELSE try_from_i128(w.v)
             ELSE None
    IN IF c.tag = "Some" THEN N_Int(c.v)
       ELSE N_Float(f64_op(op, f64_from(self), f64_from(other)))

neg_checked(n) == bin_op("sub", number_from_int(0), n)
\* impl ops::Neg for Number
neg(n) == IF n.tag = "Int" THEN N_Int(wrapping_neg(n.i)) ELSE N_Float(-n.f)

cmp(x, y) == IF x < y THEN "Less" ELSE IF x > y THEN "Greater" ELSE "Equal"

\* #[derive(PartialOrd)] on I65: the fields are compared in declaration order
I65_partial_cmp(a, b) ==
    LET c == cmp(bit(a.lsbit), bit(b.lsbit))
    IN IF c # "Equal" THEN Some(c) ELSE Some(cmp(a.msb, b.msb))

\* impl PartialOrd for Number
partial_cmp(a, b) ==
    IF a.tag = "Int" /\ b.tag = "Int" THEN I65_partial_cmp(a.i, b.i)
    ELSE Some(cmp(f64_from(a), f64_from(b)))

(***************************************************************************)
(* value.rs: Value                                                         *)
(***************************************************************************)
Null == [tag |-> "Null"]
VNumber(n) == [tag |-> "Number", n |-> n]
VString(s) == [tag |-> "String", s |-> s]
VBytes(b) == [tag |-> "Bytes", b |-> b]

Ok(v) == [tag |-> "Ok", v |-> v]
Err(kind, cause) == [tag |-> "Err", kind |-> kind, cause |-> cause]

cont(b) == b \in 128 .. 191
\* length of the well-formed UTF-8 sequence starting at s[k], 0 if there is none
utf8_char_len(s, k) ==
    LET n == Len(s) - k + 1
        b0 == s[k]
        b1 == s[k + 1]
        b2 == s[k + 2]
        b3 == s[k + 3]
    IN IF b0 <= 127 THEN 1
       ELSE IF b0 \in 194 .. 223 THEN (IF n >= 2 /\ cont(b1) THEN 2 ELSE 0)
       ELSE IF b0 \in 224 .. 239
            THEN (IF /\ n >= 3
                     /\ (CASE b0 = 224 -> b1 \in 160 .. 191
                           [] b0 = 237 -> b1 \in 128 .. 159
                           [] OTHER -> cont(b1))
                     /\ cont(b2)
                  THEN 3 ELSE 0)
       ELSE IF b0 \in 240 .. 244
            THEN (IF /\ n >= 4
                     /\ (CASE b0 = 240 -> b1 \in 144 .. 191
                           [] b0 = 244 -> b1 \in 128 .. 143
                           [] OTHER -> cont(b1))
                     /\ cont(b2)
                     /\ cont(b3)
                  THEN 4 ELSE 0)
       ELSE 0

RECURSIVE utf8_from(_, _)
utf8_from(s, k) ==
    IF k > Len(s) THEN TRUE
    ELSE LET n == utf8_char_len(s, k)
         IN IF n = 0 THEN FALSE ELSE utf8_from(s, k + n)
\* String::from_utf8(..).is_ok()
is_valid_utf8(s) == utf8_from(s, 1)

\* impl From<String> for Value
value_from_string(s) == VString(s)
value_from_bytes_unchecked(value) == VBytes(value)
value_from_bytes_ascii(value) ==
    IF \A k \in 1 .. Len(value) : value[k] <= 127 THEN VString(value) ELSE VBytes(value)
\* impl From<Vec<u8>> for Value
value_from_bytes(value) == IF is_valid_utf8(value) THEN VString(value) ELSE VBytes(value)

\* Value::null
null == Null
\* impl<T: Into<Number>> From<T> for Value
value_from_number(n) == VNumber(n)
\* impl<T: Into<Value>> From<Option<T>> for Value, with T = Vec<u8>
value_from_option(value) == IF value.tag = "None" THEN null ELSE value_from_bytes(value.v)

RECURSIVE digits(_)
digits(m) == IF m < 10 THEN <<48 + m>> ELSE Append(digits(m \div 10), 48 + (m % 10))
display_int(x) == IF x < 0 THEN <<45>> \o digits(-x) ELSE digits(x)
\* impl fmt::Display for Number
display(n) == IF n.tag = "Int" THEN display_int(i128_from(n.i)) ELSE display_int(n.f)

RECURSIVE quoted_unescaped(_, _)
quoted_unescaped(s, k) ==
    IF k > Len(s) THEN <<>> ELSE <<s[k]>> \o quoted_unescaped(s, k + 1)
RECURSIVE quoted(_, _)
\* write_sql: for b in s.as_bytes(), from byte k on
quoted(s, k) ==
    IF k > Len(s) THEN <<>>
    ELSE (IF s[k] = 39 THEN <<39, 39>> ELSE <<s[k]>>) \o quoted(s, k + 1)

\* one digit of {:02X}
hex_digit(d) == IF d < 10 THEN 48 + d ELSE 55 + d
RECURSIVE hex_unpadded(_, _)
hex_unpadded(b, k) ==
    IF k > Len(b) THEN <<>>
    ELSE (IF b[k] < 16 THEN <<hex_digit(b[k])>>
          ELSE <<hex_digit(b[k] \div 16), hex_digit(b[k] % 16)>>) \o hex_unpadded(b, k + 1)
RECURSIVE hex(_, _)
\* write_sql: for b in bytes, from byte k on
hex(b, k) ==
    IF k > Len(b) THEN <<>>
    ELSE <<hex_digit(b[k] \div 16), hex_digit(b[k] % 16)>> \o hex(b, k + 1)

\* Value::write_sql: the bytes written to the output
write_sql(v) ==
    CASE v.tag = "Null" -> <<78, 85, 76, 76>>
      [] v.tag = "Number" -> display(v.n)
      [] v.tag = "String" -> <<39>> \o quoted(v.s, 1) \o <<39>>
      [] v.tag = "Bytes" -> <<120, 39>> \o hex(v.b, 1) \o <<39>>

RECURSIVE concat_loop(_, _, _, _)
concat_loop(values, k, r, is_utf8) ==
    IF k > Len(values)
    THEN Ok(IF is_utf8 THEN value_from_string(r) ELSE value_from_bytes(r))
    ELSE LET item == values[k]
         IN IF item.tag = "Err" THEN item
            ELSE CASE item.v.tag = "Null" -> Ok(Null)
                   [] item.v.tag = "Number" ->
                        concat_loop(values, k + 1, r \o display(item.v.n), is_utf8)
                   [] item.v.tag = "String" ->
                        concat_loop(values, k + 1, r \o item.v.s, is_utf8)
                   [] item.v.tag = "Bytes" ->
                        concat_loop(values, k + 1, r \o item.v.b, FALSE)
\* Value::try_sql_concat
try_sql_concat(values) == concat_loop(values, 1, <<>>, FALSE)

RECURSIVE cmp_bytes(_, _, _)
\* lexicographic comparison of two byte slices
cmp_bytes(x, y, k) ==
    IF k > Len(x) \/ k > Len(y) THEN cmp(Len(x), Len(y))
    ELSE IF x[k] # y[k] THEN cmp(x[k], y[k])
    ELSE cmp_bytes(x, y, k + 1)

sql_cmp_strict(self, other, name) ==
    IF self.tag = "Null" \/ other.tag = "Null" THEN Ok(None)
    ELSE IF self.tag = "Number" /\ other.tag = "Number" THEN Ok(partial_cmp(self.n, other.n))
    ELSE IF self.tag = "String" /\ other.tag = "String" THEN Ok(Some(cmp_bytes(self.s, other.s, 1)))
    ELSE IF self.tag = "Bytes" /\ other.tag = "Bytes" THEN Ok(Some(cmp_bytes(self.b, other.b, 1)))
    ELSE Err("InvalidArguments", [name |-> name, cause |-> "comparing values of different types"])
sql_cmp_left_null(self, other, name) ==
    IF self.tag = "Null" THEN Ok(None)
    ELSE IF self.tag = "Number" /\ other.tag = "Number" THEN Ok(partial_cmp(self.n, other.n))
    ELSE IF self.tag \in {"String", "Bytes"} /\ other.tag \in {"String", "Bytes"}
         THEN Ok(Some(cmp_bytes(IF self.tag = "String" THEN self.s ELSE self.b,
                                IF other.tag = "String" THEN other.s ELSE other.b, 1)))
    ELSE Err("InvalidArguments", [name |-> name, cause |-> "comparing values of different types"])
\* Value::sql_cmp
sql_cmp(self, other, name) ==
    IF self.tag = "Null" \/ other.tag = "Null" THEN Ok(None)
    ELSE IF self.tag = "Number" /\ other.tag = "Number" THEN Ok(partial_cmp(self.n, other.n))
    ELSE IF self.tag = "String" /\ other.tag = "String" THEN Ok(Some(cmp_bytes(self.s, other.s, 1)))
    ELSE IF self.tag = "String" /\ other.tag = "Bytes" THEN Ok(Some(cmp_bytes(self.s, other.b, 1)))
    ELSE IF self.tag = "Bytes" /\ other.tag = "String" THEN Ok(Some(cmp_bytes(self.b, other.s, 1)))
    ELSE IF self.tag = "Bytes" /\ other.tag = "Bytes" THEN Ok(Some(cmp_bytes(self.b, other.b, 1)))
    ELSE Err("InvalidArguments", [name |-> name, cause |-> "comparing values of different types"])

(***************************************************************************)
(* cli.rs: the inputs of a run                                             *)
(***************************************************************************)
RngNames == {"Hc128", "Step"}

\* count expressions: a constant, rownum modulo a constant, and subrownum
Const(n) == [kind |-> "const", n |-> n]
RowNumMod(n) == [kind |-> "row_num_mod", n |-> n]
SubRowNum == [kind |-> "sub_row_num"]
\* write_one_row: count.eval(self.state)?, then count.try_into()
eval_count(count, st) ==
    CASE count.kind = "const" -> count.n
      [] count.kind = "row_num_mod" -> st.row_num % count.n
      [] count.kind = "sub_row_num" -> st.sub_row_num

\* compiled templates: per table its derived edges (child index, count
\* expression); a derived table follows its parent in the table list
Templates ==
    [ single |-> << [name |-> "a", derived |-> <<>>] >>,
      parent |-> << [name |-> "a", derived |-> << [child |-> 2, count |-> Const(2)] >>],
                    [name |-> "b", derived |-> <<>>] >>,
      barren |-> << [name |-> "a", derived |-> << [child |-> 2, count |-> Const(0)] >>],
                    [name |-> "b", derived |-> <<>>] >>,
      only |-> << [name |-> "a", derived |-> << [child |-> 2, count |-> Const(1)] >>],
                  [name |-> "b", derived |-> <<>>] >>,
      by_row |-> << [name |-> "a", derived |-> << [child |-> 2, count |-> RowNumMod(3)] >>],
                    [name |-> "b", derived |-> <<>>] >>,
      nested |-> << [name |-> "a", derived |-> << [child |-> 2, count |-> Const(2)] >>],
                    [name |-> "b", derived |-> << [child |-> 3, count |-> Const(2)] >>],
                    [name |-> "c", derived |-> <<>>] >>,
      siblings |-> << [name |-> "a", derived |-> << [child |-> 2, count |-> Const(2)],
                                                    [child |-> 3, count |-> SubRowNum] >>],
                      [name |-> "b", derived |-> <<>>],
                      [name |-> "c", derived |-> <<>>] >>,
      cousins |-> << [name |-> "a", derived |-> << [child |-> 2, count |-> Const(1)],
                                                   [child |-> 4, count |-> SubRowNum] >>],
                     [name |-> "b", derived |-> << [child |-> 3, count |-> Const(2)] >>],
                     [name |-> "c", derived |-> <<>>],
                     [name |-> "d", derived |-> <<>>] >> ]
\* the templates in which a table has two derived edges
SiblingTemplates == {"siblings", "cousins"}

OptionU32(dflt, max) == {None} \cup {Some(v) : v \in (1 .. max) \ {dflt}}

\* how the run is seeded and where its bytes go: the RNG engine, whether the
\* template has global expressions, --compression, --no-data, --quiet, the
\* template
Modes ==
    { [rng |-> "Hc128", global_exprs |-> FALSE, compression |-> FALSE,
       no_data |-> FALSE, quiet |-> FALSE, template |-> "single"],
      [rng |-> "Step", global_exprs |-> TRUE, compression |-> TRUE,
       no_data |-> FALSE, quiet |-> FALSE, template |-> "parent"],
      [rng |-> "Hc128", global_exprs |-> TRUE, compression |-> FALSE,
       no_data |-> TRUE, quiet |-> TRUE, template |-> "single"] }

\* the runs tried: at most MaxWork main rows at the nominal counts; a pool
\* larger than the number of shards behaves as one of that size, so --jobs
\* ranges up to --files-count
ArgsSet ==
    UNION { UNION { { [files_count |-> k, inserts_count |-> ic, rows_count |-> rc,
                       last_file_inserts_count |-> lf,
                       last_insert_rows_count |-> lr,
                       jobs |-> j, rng |-> m.rng,
                       global_exprs |-> m.global_exprs,
                       compression |-> m.compression, no_data |-> m.no_data,
                       quiet |-> m.quiet, template |-> m.template] :
                        lf \in OptionU32(ic, MaxInserts),
                        lr \in OptionU32(rc, MaxRows),
                        j \in {n \in 1 .. MaxJobs : n <= k}, m \in Modes } :
                    rc \in {n \in 1 .. MaxRows : k * ic * n <= MaxWork} } :
            k \in 1 .. MaxFiles, ic \in 1 .. MaxInserts }

unwrap_or(o, dflt) == IF o.tag = "Some" THEN o.v ELSE dflt

tables == Templates[args.template]
Tables == 1 .. Len(tables)
Shards == 1 .. args.files_count

\* run: let rows_per_file = inserts_count * rows_count
rows_per_file == args.inserts_count * args.rows_count
\* run: let last_file_inserts_count = ...unwrap_or(inserts_count)
last_file_inserts_count == unwrap_or(args.last_file_inserts_count, args.inserts_count)
\* run: let last_insert_rows_count = ...unwrap_or(rows_count)
last_insert_rows_count == unwrap_or(args.last_insert_rows_count, args.rows_count)
\* run: the total handed to run_progress_thread
total_rows ==
    (args.files_count - 1) * rows_per_file
        + (last_file_inserts_count - 1) * args.rows_count
        + last_insert_rows_count

(***************************************************************************)
(* cli.rs: seeding                                                         *)
(***************************************************************************)
meta_seed == "seed"
\* StdRng::from_seed
from_seed(seed) == [seed |-> seed, pos |-> 0]
\* the next value of an RNG, and the RNG after it
gen(rng) == <<rng.seed, rng.pos>>
advance(rng, n) == [rng EXCEPT !.pos = @ + n]

\* RngName::create: the engine seeded from src, and src after the draws
create(name, src) ==
    IF name = "Step"
    THEN [rng |-> from_seed(<<gen(src), gen(advance(src, 1))>>), src |-> advance(src, 2)]
    ELSE [rng |-> from_seed(<<gen(src)>>), src |-> advance(src, 1)]

start_row_by_index(i) == (i + 1) * rows_per_file + 1
\* run: u64::from(i) * rows_per_file + 1
start_row(i) == i * rows_per_file + 1

RECURSIVE collect(_, _)
\* run: (0..files_count).map(..).collect(): the descriptors of shards 1..k,
\* drawn in index order, and the seeding RNG left after them
collect(k, src) ==
    IF k = 0 THEN [iv |-> <<>>, src |-> src]
    ELSE LET prev == collect(k - 1, src)
             last == k = args.files_count
             c == create(args.rng, prev.src)
             d == [seed |-> c.rng,
                   info |-> [file_index |-> k,
                             inserts_count |-> IF last THEN last_file_inserts_count
                                               ELSE args.inserts_count,
                             last_insert_rows_count |-> IF last THEN last_insert_rows_count
                                                        ELSE args.rows_count],
                   row_num |-> start_row(k - 1)]
         IN [iv |-> Append(prev.iv, d), src |-> c.src]

(***************************************************************************)
(* cli.rs: WriteCountWrapper<BufWriter<Box<dyn Write>>>                    *)
(***************************************************************************)
\* a file of a shard: out is what the format writer wrote, count the
\* wrapper's counter, buf the bytes held by the BufWriter and inner the
\* bytes handed to the Box<dyn Write> below it (codec, File or sink)
new_file == [out |-> <<>>, count |-> 0, buf |-> 0, inner |-> 0]

\* BufWriter::write of n bytes
buf_write(file, n) ==
    LET spill == file.buf + n > BufCap
        b == IF spill THEN 0 ELSE file.buf
        w == IF spill THEN file.inner + file.buf ELSE file.inner
    IN IF n >= BufCap THEN [file EXCEPT !.buf = b, !.inner = w + n]
       ELSE [file EXCEPT !.buf = b + n, !.inner = w]

count_write_below(file, n) ==
    [buf_write(file, n) EXCEPT !.count = @ + (buf_write(file, n).inner - file.inner)]
\* impl Write for WriteCountWrapper: write
count_write(file, n) == [buf_write(file, n) EXCEPT !.count = @ + n]

\* dropping the file: the BufWriter flushes what it holds
drop_file(file) == [file EXCEPT !.buf = 0, !.inner = @ + file.buf]

\* length in bytes of the compressed form of n bytes
codec_len(n) == IF n = 0 THEN 0 ELSE 1 + (n \div 2)
\* Env::open_data_file: the bytes in the file on disk
on_disk(file) ==
    IF args.no_data THEN 0
    ELSE IF args.compression THEN codec_len(file.inner)
    ELSE file.inner

\* bytes written by the SQL format for one event
event_len(e) ==
    CASE e.ev = "header" -> 21
      [] e.ev = "row_separator" -> 2
      [] e.ev = "trailer" -> 2
      [] e.ev = "row" -> 7

(***************************************************************************)
(* cli.rs: FileWriterEnv                                                   *)
(***************************************************************************)
\* State::new
new_state(row_num, seed) == [row_num |-> row_num, sub_row_num |-> 1, rng |-> seed]
\* State::increase_row_num
increase_row_num(st) == [st EXCEPT !.row_num = @ + 1]

new_fwe ==
    [visited |-> [t \in Tables |-> FALSE],
     actual_rows |-> [t \in Tables |-> 0],
     files |-> [t \in Tables |-> new_file]]

\* one format call on files[i]
emit(x, i, e) ==
    [x EXCEPT !.fwe.files[i] = [count_write(@, event_len(e)) EXCEPT !.out = Append(@, e)]]

RECURSIVE write_one_row(_, _), derived_loop(_, _, _), child_loop(_, _, _, _)
\* FileWriterEnv::write_one_row; x.fail counts down to the evaluation, of a
\* row or of the count of a derived edge, that returns an error (0: none does)
write_one_row(x, i) ==
    IF x.err THEN x
    ELSE LET first == x.state.sub_row_num = 1 /\ x.fwe.actual_rows[i] = 0
             x1 == emit(x, i, [ev |-> IF first THEN "header" ELSE "row_separator"])
             x2 == [x1 EXCEPT !.fail = IF @ > 0 THEN @ - 1 ELSE 0,
                              !.state.rng = advance(@, 1),
                              !.fwe.actual_rows[i] = @ + 1]
             x3 == emit(x2, i, [ev |-> "row",
                                row_num |-> x1.state.row_num,
                                sub_row_num |-> x1.state.sub_row_num,
                                rnd |-> gen(x1.state.rng)])
         IN IF x1.fail = 1 THEN [x1 EXCEPT !.err = TRUE]
            ELSE derived_loop(x3, i, 1)

derived_loop_unmarked(x, i, e) ==
    IF x.err \/ e > Len(tables[i].derived) THEN x
    ELSE IF x.fail = 1 THEN [x EXCEPT !.err = TRUE]
    ELSE LET d == tables[i].derived[e]
             x1 == [x EXCEPT !.fail = IF @ > 0 THEN @ - 1 ELSE 0]
         IN derived_loop(child_loop(x1, d.child, 1, eval_count(d.count, x.state)), i, e + 1)

\* write_one_row: for (child, count) in &table.derived, from edge e on; the
\* evaluation of the count, or its conversion to u64, may return an error
derived_loop(x, i, e) ==
    IF x.err \/ e > Len(tables[i].derived) THEN x
    ELSE IF x.fail = 1 THEN [x EXCEPT !.err = TRUE]
    ELSE LET d == tables[i].derived[e]
             x1 == [x EXCEPT !.fail = IF @ > 0 THEN @ - 1 ELSE 0,
                             !.fwe.visited[d.child] = TRUE]
         IN derived_loop(child_loop(x1, d.child, 1, eval_count(d.count, x.state)), i, e + 1)

child_loop_advancing(x, child, r, count) ==
    IF x.err \/ r > count THEN x
    ELSE LET x1 == write_one_row([x EXCEPT !.state.sub_row_num = r], child)
         IN child_loop([x1 EXCEPT !.state = increase_row_num(@)], child, r + 1, count)

child_loop_unset(x, child, r, count) ==
    IF x.err \/ r > count THEN x
    ELSE child_loop(write_one_row(x, child), child, r + 1, count)

\* write_one_row: for r in 1..=count, from r on
child_loop(x, child, r, count) ==
    IF x.err \/ r > count THEN x
    ELSE child_loop(write_one_row([x EXCEPT !.state.sub_row_num = r], child),
                    child, r + 1, count)

RECURSIVE visit_loop(_, _)
\* write_row: for i in 0..self.visited.len(), from table i on
visit_loop(x, i) ==
    IF x.err \/ i > Len(tables) THEN x
    ELSE IF x.fwe.visited[i] THEN visit_loop(x, i + 1)
    ELSE visit_loop(write_one_row([x EXCEPT !.fwe.visited[i] = TRUE,
                                            !.state.sub_row_num = 1], i),
                    i + 1)

\* FileWriterEnv::write_row
write_row(x) ==
    LET x1 == visit_loop([x EXCEPT !.fwe.visited = [t \in Tables |-> FALSE]], 1)
    IN IF x1.err THEN x1 ELSE [x1 EXCEPT !.state = increase_row_num(@)]

RECURSIVE trailer_loop(_, _)
trailer_loop_keep(x, i) ==
    IF i > Len(tables) THEN x
    ELSE trailer_loop(IF x.fwe.actual_rows[i] > 0
                      THEN emit(x, i, [ev |-> "trailer"]) ELSE x,
                      i + 1)
\* write_trailer: the loop over the files, from table i on
trailer_loop(x, i) ==
    IF i > Len(tables) THEN x
    ELSE LET x1 == [x EXCEPT !.fwe.actual_rows[i] = 0]
         IN trailer_loop(IF x.fwe.actual_rows[i] > 0
                         THEN emit(x1, i, [ev |-> "trailer"]) ELSE x1,
                         i + 1)
\* FileWriterEnv::write_trailer
write_trailer(x) == trailer_loop(x, 1)

RECURSIVE sum_over(_, _)
\* sum of f[t] over t in 1..n
sum_over(f, n) == IF n = 0 THEN 0 ELSE f[n] + sum_over(f, n - 1)

\* WriteCountWrapper::commit_bytes_written: the total taken from the instances
taken(files) == sum_over([t \in Tables |-> files[t].count], Len(tables))
keep_counts(files) == files
reset_counts(files) == [t \in Tables |-> [files[t] EXCEPT !.count = 0]]

drop_files(f) == [f EXCEPT !.files = [t \in Tables |-> drop_file(f.files[t])]]

(***************************************************************************)
(* cli.rs: run and Env::write_data_file as a state machine                 *)
(***************************************************************************)
NoValue == [tag |-> "None"]
FailPoints == 1 .. 3

pc(s) == shard[s].pc
started(s) == pc(s) # "queued"
running(s) == pc(s) \in {"rows", "trailer", "commit", "progress"}
finished(s) == pc(s) \in {"done", "failed"}

rows_count_every(s) == args.rows_count
\* write_data_file: let rows_count = if i == info.inserts_count - 1 {..} else {..}
rows_count(s) ==
    IF shard[s].i = iv[s].info.inserts_count - 1
    THEN iv[s].info.last_insert_rows_count
    ELSE args.rows_count

\* impl Default for Args
DefaultArgs ==
    [files_count |-> 1, inserts_count |-> 1, rows_count |-> 1,
     last_file_inserts_count |-> None, last_insert_rows_count |-> None,
     jobs |-> 0, rng |-> "Hc128", global_exprs |-> FALSE,
     compression |-> FALSE, no_data |-> FALSE, quiet |-> TRUE,
     template |-> "single"]

\* run_progress_thread: the bars as created, pb with the total and
\* speed_bar with total 0, and nothing loaded yet (cli.rs 693-706); counted
\* records, for the row count last loaded, how many INSERTs of each shard
\* it includes
new_poll ==
    [rows_count |-> None, written_size |-> None,
     pb |-> [total |-> total_rows, cur |-> 0],
     speed_bar |-> [total |-> 0, cur |-> 0],
     counted |-> [s \in Shards |-> 0]]

InitWith(A) ==
    /\ call = [op |-> "none"]
    /\ args \in A
    /\ run_pc = "start"
    /\ progress_pc = "unspawned"
    /\ poll = new_poll
    /\ seeding_rng = from_seed(meta_seed)
    /\ global_rng = NoValue
    /\ iv = <<>>
    /\ res = NoValue
    /\ shard = [s \in Shards |-> [pc |-> "queued", i |-> 0, j |-> 0]]
    /\ state = [s \in Shards |-> NoValue]
    /\ fwe = [s \in Shards |-> NoValue]
    /\ WRITE_FINISHED = FALSE
    /\ WRITE_PROGRESS = 0
    /\ WRITTEN_SIZE = 0

Init == InitWith(ArgsSet)

\* run: the global expressions are evaluated, if any (cli.rs 284-290)
EvalGlobals ==
    /\ run_pc = "start"
    /\ IF args.global_exprs
       THEN LET c == create(args.rng, seeding_rng)
            IN seeding_rng' = c.src /\ global_rng' = c.rng
       ELSE UNCHANGED <<seeding_rng, global_rng>>
    /\ run_pc' = "globals"
    /\ UNCHANGED <<call, args, progress_pc, poll, iv, res, shard, state, fwe,
                   WRITE_FINISHED, WRITE_PROGRESS, WRITTEN_SIZE>>

\* run: row_gen.eval(&mut state)? returns an error (cli.rs 288)
FailGlobals ==
    /\ run_pc = "start"
    /\ args.global_exprs
    /\ LET c == create(args.rng, seeding_rng)
       IN seeding_rng' = c.src /\ global_rng' = c.rng
    /\ res' = Err("Eval", "global expression")
    /\ run_pc' = "returned"
    /\ UNCHANGED <<call, args, progress_pc, poll, iv, shard, state, fwe,
                   WRITE_FINISHED, WRITE_PROGRESS, WRITTEN_SIZE>>

\* run: the progress bar thread is spawned, which with --quiet does nothing;
\* the descriptors are collected, then pool.install starts (cli.rs 292-320)
Collect ==
    /\ run_pc = "globals"
    /\ progress_pc' = IF args.quiet THEN "exited" ELSE "test"
    /\ LET c == collect(args.files_count, seeding_rng)
       IN iv' = c.iv /\ seeding_rng' = c.src
    /\ run_pc' = "install"
    /\ UNCHANGED <<call, args, poll, global_rng, res, shard, state, fwe,
                   WRITE_FINISHED, WRITE_PROGRESS, WRITTEN_SIZE>>

StartShardLazy(s) ==
    /\ run_pc = "install"
    /\ pc(s) = "queued"
    /\ Cardinality({t \in Shards : running(t)}) < args.jobs
    /\ shard' = [shard EXCEPT ![s].pc = "rows"]
    /\ LET c == create(args.rng, seeding_rng)
       IN /\ state' = [state EXCEPT ![s] = new_state(iv[s].row_num, c.rng)]
          /\ seeding_rng' = c.src
    /\ fwe' = [fwe EXCEPT ![s] = new_fwe]
    /\ UNCHANGED <<call, args, progress_pc, poll, run_pc, global_rng, iv, res,
                   WRITE_FINISHED, WRITE_PROGRESS, WRITTEN_SIZE>>

\* a worker of the pool takes shard s: State::new, then write_data_file opens
\* the files (cli.rs 322-323, 563-589)
StartShard(s) ==
    /\ run_pc = "install"
    /\ pc(s) = "queued"
    /\ Cardinality({t \in Shards : running(t)}) < args.jobs
    /\ shard' = [shard EXCEPT ![s].pc = "rows"]
    /\ state' = [state EXCEPT ![s] = new_state(iv[s].row_num, iv[s].seed)]
    /\ fwe' = [fwe EXCEPT ![s] = new_fwe]
    /\ UNCHANGED <<call, args, progress_pc, poll, run_pc, seeding_rng, global_rng, iv, res,
                   WRITE_FINISHED, WRITE_PROGRESS, WRITTEN_SIZE>>

\* write_data_file: open_data_file(&mut path)? returns an error (cli.rs 576)
FailOpen(s) ==
    /\ run_pc = "install"
    /\ pc(s) = "queued"
    /\ Cardinality({t \in Shards : running(t)}) < args.jobs
    /\ ~args.no_data
    /\ shard' = [shard EXCEPT ![s].pc = "failed"]
    /\ UNCHANGED <<call, args, progress_pc, poll, run_pc, seeding_rng, global_rng, iv, res, state, fwe,
                   WRITE_FINISHED, WRITE_PROGRESS, WRITTEN_SIZE>>

\* the step of write_data_file after write_row: the next row or the trailer
after_row(s) ==
    [shard EXCEPT ![s].j = @ + 1,
                  ![s].pc = IF shard[s].j + 1 = rows_count(s) THEN "trailer" ELSE "rows"]

\* write_data_file: fwe.write_row()? returns Ok (cli.rs 607-609)
WriteRow(s) ==
    /\ pc(s) = "rows"
    /\ LET x == write_row([state |-> state[s], fwe |-> fwe[s],
                           err |-> FALSE, fail |-> 0])
       IN /\ state' = [state EXCEPT ![s] = x.state]
          /\ fwe' = [fwe EXCEPT ![s] = x.fwe]
    /\ shard' = after_row(s)
    /\ UNCHANGED <<call, args, progress_pc, poll, run_pc, seeding_rng, global_rng, iv, res,
                   WRITE_FINISHED, WRITE_PROGRESS, WRITTEN_SIZE>>

FailRowCommitting(s) ==
    /\ pc(s) = "rows"
    /\ \E fail \in FailPoints :
         LET x == write_row([state |-> state[s], fwe |-> fwe[s],
                             err |-> FALSE, fail |-> fail])
         IN /\ x.err
            /\ state' = [state EXCEPT ![s] = x.state]
            /\ fwe' = [fwe EXCEPT ![s] = drop_files([x.fwe EXCEPT !.files = reset_counts(@)])]
            /\ WRITTEN_SIZE' = WRITTEN_SIZE + taken(x.fwe.files)
    /\ shard' = [shard EXCEPT ![s].pc = "failed"]
    /\ UNCHANGED <<call, args, progress_pc, poll, run_pc, seeding_rng, global_rng, iv, res,
                   WRITE_FINISHED, WRITE_PROGRESS>>

\* write_data_file: fwe.write_row()? with the fail-th evaluation, of a row or
\* of a derived count, returning an error; the shard returns it and its files
\* are dropped (cli.rs 608, 632, 643-649)
FailRow(s) ==
    /\ pc(s) = "rows"
    /\ \E fail \in FailPoints :
         LET x == write_row([state |-> state[s], fwe |-> fwe[s],
                             err |-> FALSE, fail |-> fail])
         IN /\ x.err
            /\ state' = [state EXCEPT ![s] = x.state]
            /\ fwe' = [fwe EXCEPT ![s] = drop_files(x.fwe)]
    /\ shard' = [shard EXCEPT ![s].pc = "failed"]
    /\ UNCHANGED <<call, args, progress_pc, poll, run_pc, seeding_rng, global_rng, iv, res,
                   WRITE_FINISHED, WRITE_PROGRESS, WRITTEN_SIZE>>

\* write_data_file: fwe.write_trailer()? returns Ok (cli.rs 610)
WriteTrailer(s) ==
    /\ pc(s) = "trailer"
    /\ fwe' = [fwe EXCEPT ![s] =
                 write_trailer([state |-> state[s], fwe |-> fwe[s]]).fwe]
    /\ shard' = [shard EXCEPT ![s].pc = "commit"]
    /\ UNCHANGED <<call, args, progress_pc, poll, run_pc, seeding_rng, global_rng, iv, res, state,
                   WRITE_FINISHED, WRITE_PROGRESS, WRITTEN_SIZE>>

FailTrailerCounting(s) ==
    /\ pc(s) = "trailer"
    /\ ~args.no_data
    /\ fwe' = [fwe EXCEPT ![s] = drop_files(@)]
    /\ shard' = [shard EXCEPT ![s].pc = "failed"]
    /\ WRITE_PROGRESS' = WRITE_PROGRESS + rows_count(s)
    /\ UNCHANGED <<call, args, progress_pc, poll, run_pc, seeding_rng, global_rng, iv, res, state,
                   WRITE_FINISHED, WRITTEN_SIZE>>

\* write_data_file: fwe.write_trailer()? returns the error of its first write
\* (cli.rs 610, 678)
FailTrailer(s) ==
    /\ pc(s) = "trailer"
    /\ ~args.no_data
    /\ fwe' = [fwe EXCEPT ![s] = drop_files(@)]
    /\ shard' = [shard EXCEPT ![s].pc = "failed"]
    /\ UNCHANGED <<call, args, progress_pc, poll, run_pc, seeding_rng, global_rng, iv, res, state,
                   WRITE_FINISHED, WRITE_PROGRESS, WRITTEN_SIZE>>

\* write_data_file: WriteCountWrapper::commit_bytes_written (cli.rs 612, 482-485)
CommitBytes(s) ==
    /\ pc(s) = "commit"
    /\ WRITTEN_SIZE' = WRITTEN_SIZE + taken(fwe[s].files)
    /\ fwe' = [fwe EXCEPT ![s].files = reset_counts(@)]
    /\ shard' = [shard EXCEPT ![s].pc = "progress"]
    /\ UNCHANGED <<call, args, progress_pc, poll, run_pc, seeding_rng, global_rng, iv, res, state,
                   WRITE_FINISHED, WRITE_PROGRESS>>

AddProgressStoring(s) ==
    /\ pc(s) = "progress"
    /\ WRITE_PROGRESS' = (shard[s].i + 1) * rows_count(s)
    /\ IF shard[s].i + 1 = iv[s].info.inserts_count
       THEN /\ shard' = [shard EXCEPT ![s].pc = "done", ![s].i = @ + 1]
            /\ fwe' = [fwe EXCEPT ![s] = drop_files(@)]
       ELSE /\ shard' = [shard EXCEPT ![s].pc = "rows", ![s].i = @ + 1, ![s].j = 0]
            /\ fwe' = fwe
    /\ UNCHANGED <<call, args, progress_pc, poll, run_pc, seeding_rng, global_rng, iv, res, state,
                   WRITE_FINISHED, WRITTEN_SIZE>>

AddProgressFinishing(s) ==
    /\ pc(s) = "progress"
    /\ WRITE_PROGRESS' = WRITE_PROGRESS + rows_count(s)
    /\ IF shard[s].i + 1 = iv[s].info.inserts_count
       THEN /\ shard' = [shard EXCEPT ![s].pc = "done", ![s].i = @ + 1]
            /\ fwe' = [fwe EXCEPT ![s] = drop_files(@)]
            /\ WRITE_FINISHED' = TRUE
       ELSE /\ shard' = [shard EXCEPT ![s].pc = "rows", ![s].i = @ + 1, ![s].j = 0]
            /\ fwe' = fwe
            /\ WRITE_FINISHED' = WRITE_FINISHED
    /\ UNCHANGED <<call, args, progress_pc, poll, run_pc, seeding_rng, global_rng, iv, res, state,
                   WRITTEN_SIZE>>

\* write_data_file: WRITE_PROGRESS.fetch_add(rows_count), then the next INSERT,
\* or Ok(()) after the last, which drops the files (cli.rs 613-615)
AddProgress(s) ==
    /\ pc(s) = "progress"
    /\ WRITE_PROGRESS' = WRITE_PROGRESS + rows_count(s)
    /\ IF shard[s].i + 1 = iv[s].info.inserts_count
       THEN /\ shard' = [shard EXCEPT ![s].pc = "done", ![s].i = @ + 1]
            /\ fwe' = [fwe EXCEPT ![s] = drop_files(@)]
       ELSE /\ shard' = [shard EXCEPT ![s].pc = "rows", ![s].i = @ + 1, ![s].j = 0]
            /\ fwe' = fwe
    /\ UNCHANGED <<call, args, progress_pc, poll, run_pc, seeding_rng, global_rng, iv, res, state,
                   WRITE_FINISHED, WRITTEN_SIZE>>

PoolReturnEarly ==
    /\ run_pc = "install"
    /\ \/ \A s \in Shards : pc(s) = "done"
       \/ \E s \in Shards : pc(s) = "failed"
    /\ res' = IF \E s \in Shards : pc(s) = "failed"
              THEN Err("Shard", "first error") ELSE Ok("unit")
    /\ run_pc' = "installed"
    /\ UNCHANGED <<call, args, progress_pc, poll, seeding_rng, global_rng, iv, shard, state, fwe,
                   WRITE_FINISHED, WRITE_PROGRESS, WRITTEN_SIZE>>

PoolReturnSurfacing ==
    /\ run_pc = "install"
    /\ \A s \in Shards : ~running(s)
    /\ \/ \A s \in Shards : pc(s) = "done"
       \/ \E s \in Shards : pc(s) = "failed"
    /\ res' = IF \E s \in Shards : pc(s) = "failed"
              THEN Err("Shard", "first error") ELSE Ok("unit")
    /\ run_pc' = IF \E s \in Shards : pc(s) = "failed" THEN "returned" ELSE "installed"
    /\ UNCHANGED <<call, args, progress_pc, poll, seeding_rng, global_rng, iv, shard, state, fwe,
                   WRITE_FINISHED, WRITE_PROGRESS, WRITTEN_SIZE>>

\* run: pool.install returns once no shard runs and either every shard was
\* taken or try_for_each has short-circuited on an error (cli.rs 320-325)
PoolReturn ==
    /\ run_pc = "install"
    /\ \A s \in Shards : ~running(s)
    /\ \/ \A s \in Shards : pc(s) = "done"
       \/ \E s \in Shards : pc(s) = "failed"
    /\ res' = IF \E s \in Shards : pc(s) = "failed"
              THEN Err("Shard", "first error") ELSE Ok("unit")
    /\ run_pc' = "installed"
    /\ UNCHANGED <<call, args, progress_pc, poll, seeding_rng, global_rng, iv, shard, state, fwe,
                   WRITE_FINISHED, WRITE_PROGRESS, WRITTEN_SIZE>>

\* run: WRITE_FINISHED.store(true) (cli.rs 327)
StoreFinished ==
    /\ run_pc = "installed"
    /\ WRITE_FINISHED' = TRUE
    /\ run_pc' = "finished"
    /\ UNCHANGED <<call, args, progress_pc, poll, seeding_rng, global_rng, iv, res, shard, state, fwe,
                   WRITE_PROGRESS, WRITTEN_SIZE>>

\* run: progress_bar_thread.join(); res?; Ok(()) (cli.rs 328-331)
Return ==
    /\ run_pc = "finished"
    /\ progress_pc = "exited"
    /\ run_pc' = "returned"
    /\ UNCHANGED <<call, args, progress_pc, poll, seeding_rng, global_rng, iv, res, shard, state, fwe,
                   WRITE_FINISHED, WRITE_PROGRESS, WRITTEN_SIZE>>

\* run_progress_thread: while !WRITE_FINISHED.load(), with the flag unset;
\* the thread then sleeps (cli.rs 710-711)
ProgressPoll ==
    /\ progress_pc = "test"
    /\ ~WRITE_FINISHED
    /\ progress_pc' = "body"
    /\ UNCHANGED <<call, args, poll, run_pc, seeding_rng, global_rng, iv, res, shard, state,
                   fwe, WRITE_FINISHED, WRITE_PROGRESS, WRITTEN_SIZE>>

set_speed_bar_always(p) ==
    [p EXCEPT !.speed_bar =
        [total |-> IF p.rows_count.v # 0
                   THEN (2 * p.written_size.v * total_rows + p.rows_count.v)
                            \div (2 * p.rows_count.v)
                   ELSE @.total,
         cur |-> p.written_size.v]]

\* u64::mul_div_round
mul_div_round(x, num, den) == (2 * x * num + den) \div (2 * den)

\* run_progress_thread: if rows_count != 0 { speed_bar.total = ..;
\* speed_bar.set(written_size) } (cli.rs 716-721)
set_speed_bar(p) ==
    IF p.rows_count.v # 0
    THEN [p EXCEPT !.speed_bar =
            [total |-> mul_div_round(p.written_size.v, total_rows, p.rows_count.v),
             cur |-> p.written_size.v]]
    ELSE p

\* run_progress_thread: let rows_count = WRITE_PROGRESS.load(Relaxed);
\* pb.set(rows_count) (cli.rs 712-713).  The two loads of the body are
\* Relaxed loads of two different atomics: the value of WRITTEN_SIZE is one
\* the counter had before or after WRITE_PROGRESS had the value loaded, so
\* the loads take their values in either order; the bars are set once both
\* values are there.
ProgressLoadRows ==
    /\ progress_pc \in {"body", "size_loaded"}
    /\ LET p == [poll EXCEPT !.rows_count = Some(WRITE_PROGRESS),
                             !.pb.cur = WRITE_PROGRESS,
                             !.counted = [s \in Shards |-> shard[s].i]]
       IN IF progress_pc = "body"
          THEN poll' = p /\ progress_pc' = "rows_loaded"
          ELSE poll' = set_speed_bar(p) /\ progress_pc' = "test"
    /\ UNCHANGED <<call, args, run_pc, seeding_rng, global_rng, iv, res, shard, state,
                   fwe, WRITE_FINISHED, WRITE_PROGRESS, WRITTEN_SIZE>>

\* run_progress_thread: let written_size = WRITTEN_SIZE.load(Relaxed)
\* (cli.rs 715)
ProgressLoadSize ==
    /\ progress_pc \in {"body", "rows_loaded"}
    /\ LET p == [poll EXCEPT !.written_size = Some(WRITTEN_SIZE)]
       IN IF progress_pc = "body"
          THEN poll' = p /\ progress_pc' = "size_loaded"
          ELSE poll' = set_speed_bar(p) /\ progress_pc' = "test"
    /\ UNCHANGED <<call, args, run_pc, seeding_rng, global_rng, iv, res, shard, state,
                   fwe, WRITE_FINISHED, WRITE_PROGRESS, WRITTEN_SIZE>>

\* run_progress_thread: the loop ends once the flag is read set, the bars are
\* finished and the thread exits (cli.rs 710, 724-727)
ProgressExit ==
    /\ progress_pc = "test"
    /\ WRITE_FINISHED
    /\ progress_pc' = "exited"
    /\ UNCHANGED <<call, args, poll, run_pc, seeding_rng, global_rng, iv, res, shard, state,
                   fwe, WRITE_FINISHED, WRITE_PROGRESS, WRITTEN_SIZE>>

Next ==
    \/ EvalGlobals
    \/ Collect
    \/ \E s \in Shards : StartShard(s)
    \/ \E s \in Shards : WriteRow(s)
    \/ \E s \in Shards : WriteTrailer(s)
    \/ \E s \in Shards : CommitBytes(s)
    \/ \E s \in Shards : AddProgress(s)
    \/ PoolReturn
    \/ StoreFinished
    \/ ProgressExit
    \/ Return

Spec == Init /\ [][Next]_vars

(***************************************************************************)
(* The run of every template, its shards taken one at a time.              *)
(***************************************************************************)
ShardArgsSet ==
    UNION { UNION { { [files_count |-> k, inserts_count |-> ic, rows_count |-> rc,
                       last_file_inserts_count |-> lf,
                       last_insert_rows_count |-> lr,
                       jobs |-> 1, rng |-> "Hc128", global_exprs |-> FALSE,
                       compression |-> FALSE, no_data |-> FALSE,
                       quiet |-> FALSE, template |-> t] :
                        lf \in OptionU32(ic, MaxInserts),
                        lr \in OptionU32(rc, MaxRows),
                        t \in DOMAIN Templates \ SiblingTemplates } :
                    rc \in {n \in 1 .. MaxRows : k * ic * n <= MaxWork} } :
            k \in 1 .. MaxFiles, ic \in 1 .. MaxInserts }

InitShard == InitWith(ShardArgsSet)

SpecShard == InitShard /\ [][Next]_vars

(***************************************************************************)
(* The run of the templates in which a table has two derived edges.        *)
(***************************************************************************)
SiblingArgsSet ==
    UNION { { [files_count |-> k, inserts_count |-> ic, rows_count |-> rc,
               last_file_inserts_count |-> None, last_insert_rows_count |-> None,
               jobs |-> j, rng |-> "Hc128", global_exprs |-> FALSE,
               compression |-> FALSE, no_data |-> FALSE,
               quiet |-> FALSE, template |-> t] :
                rc \in {n \in 1 .. MaxRows : k * ic * n <= MaxWork},
                j \in {n \in 1 .. MaxJobs : n <= k},
                t \in SiblingTemplates } :
            k \in 1 .. MaxFiles, ic \in 1 .. MaxInserts }

InitSiblings == InitWith(SiblingArgsSet)

SpecSiblings == InitSiblings /\ [][Next]_vars

(***************************************************************************)
(* The run with errors: any open, row evaluation or trailer write may      *)
(* return an error.  The runs are those without --last-* overrides, on     *)
(* the largest pool.                                                       *)
(***************************************************************************)
FaultArgsSet ==
    {a \in ArgsSet : /\ a.last_file_inserts_count = None
                     /\ a.last_insert_rows_count = None
                     /\ a.jobs = IF a.files_count < MaxJobs THEN a.files_count ELSE MaxJobs}

InitFault == InitWith(FaultArgsSet)

NextFault ==
    \/ Next
    \/ FailGlobals
    \/ \E s \in Shards : FailOpen(s)
    \/ \E s \in Shards : FailRow(s)
    \/ \E s \in Shards : FailTrailer(s)

SpecFault == InitFault /\ [][NextFault]_vars

(***************************************************************************)
(* The run with errors and with the polling of the progress bar thread.    *)
(* Every thread that can take a step eventually takes one: the thread of   *)
(* run, the workers of the pool on the shards, the progress bar thread.    *)
(***************************************************************************)
LiveArgsSet ==
    {a \in FaultArgsSet : a.files_count * a.inserts_count * a.rows_count <= MaxPollWork}

InitLive == InitWith(LiveArgsSet)

MainStep ==
    \/ EvalGlobals
    \/ FailGlobals
    \/ Collect
    \/ PoolReturn
    \/ StoreFinished
    \/ Return
WorkerStep(s) ==
    \/ StartShard(s)
    \/ FailOpen(s)
    \/ WriteRow(s)
    \/ FailRow(s)
    \/ WriteTrailer(s)
    \/ FailTrailer(s)
    \/ CommitBytes(s)
    \/ AddProgress(s)
ProgressStep ==
    \/ ProgressPoll
    \/ ProgressLoadRows
    \/ ProgressLoadSize
    \/ ProgressExit

NextLive ==
    \/ NextFault
    \/ ProgressPoll
    \/ ProgressLoadRows
    \/ ProgressLoadSize

\* WorkerStep(s) is enabled, and a step is one of WorkerStep(s): the steps
\* of the worker on shard s are those that change shard[s]
worker_enabled(s) ==
    /\ s \in Shards
    /\ \/ running(s)
       \/ /\ run_pc = "install"
          /\ pc(s) = "queued"
          /\ Cardinality({t \in Shards : running(t)}) < args.jobs
worker_moves(s) == s \in Shards /\ shard[s]' # shard[s]
\* weak fairness of WorkerStep(s), written out
WorkerFairness(s) == []<>(~worker_enabled(s)) \/ []<><<worker_moves(s)>>_vars

Fairness ==
    /\ WF_vars(MainStep)
    /\ \A s \in 1 .. MaxFiles : WorkerFairness(s)
    /\ WF_vars(ProgressStep)

SpecLive == InitLive /\ [][NextLive]_vars /\ Fairness

(***************************************************************************)
(* value.rs: the pure operations, applied to inputs drawn from bounded     *)
(* sets; call records the operation, its arguments and its result.         *)
(***************************************************************************)
ByteSample == {65, 169, 195}

RECURSIVE SeqsUpTo(_, _)
\* the sequences over S of length at most n
SeqsUpTo(S, n) ==
    IF n = 0 THEN {<<>>}
    ELSE LET shorter == SeqsUpTo(S, n - 1)
         IN shorter \cup {Append(q, e) : q \in shorter, e \in S}

ByteStrings == SeqsUpTo(ByteSample, MaxLen)
StringValues == {VString(b) : b \in {c \in ByteStrings : is_valid_utf8(c)}}
BytesValues == {VBytes(b) : b \in {c \in ByteStrings : ~is_valid_utf8(c)}}
NumberSample == {N_Int([lsbit |-> FALSE, msb |-> I64_MIN]), N_Int([lsbit |-> TRUE, msb |-> 1])}
Values == {Null} \cup {VNumber(n) : n \in IntNumber} \cup StringValues \cup BytesValues
ConcatItems ==
    {Ok(v) : v \in {Null} \cup {VNumber(n) : n \in NumberSample}
                       \cup StringValues \cup BytesValues}
        \cup {Err("Eval", "argument")}

\* no operation has been applied yet
idle == call.op = "none"
runVarsUnchanged == UNCHANGED runVars

TryFromI128 ==
    /\ idle
    /\ \E v \in I128 :
         LET r == try_from_i128(v)
         IN call' = [op |-> "try_from_i128", v |-> v, ret |-> r,
                     back |-> IF r.tag = "Some" THEN to_i128(N_Int(r.v)) ELSE None]
    /\ runVarsUnchanged

FromU64 ==
    /\ idle
    /\ \E v \in U64 :
         LET r == number_from_uint(v)
         IN call' = [op |-> "from_u64", v |-> v, ret |-> r, back |-> to_i128(r)]
    /\ runVarsUnchanged

FromI64 ==
    /\ idle
    /\ \E v \in I64 :
         LET r == number_from_int(v)
         IN call' = [op |-> "from_i64", v |-> v, ret |-> r, back |-> to_i128(r)]
    /\ runVarsUnchanged

Neg ==
    /\ idle
    /\ \E a \in IntNumber : call' = [op |-> "neg", a |-> a, ret |-> neg(a)]
    /\ runVarsUnchanged

BinOp ==
    /\ idle
    /\ \E op \in {"add", "sub", "mul"}, a \in IntNumber, b \in IntNumber :
         call' = [op |-> op, a |-> a, b |-> b, ret |-> bin_op(op, a, b)]
    /\ runVarsUnchanged

PartialCmp ==
    /\ idle
    /\ \E a \in IntNumber, b \in IntNumber :
         call' = [op |-> "partial_cmp", a |-> a, b |-> b, ret |-> partial_cmp(a, b)]
    /\ runVarsUnchanged

SqlCmp ==
    /\ idle
    /\ \E a \in Values, b \in Values :
         call' = [op |-> "sql_cmp", a |-> a, b |-> b, ret |-> sql_cmp(a, b, "fn")]
    /\ runVarsUnchanged

TrySqlConcat ==
    /\ idle
    /\ \E values \in SeqsUpTo(ConcatItems, MaxItems) :
         call' = [op |-> "try_sql_concat", values |-> values,
                  ret |-> try_sql_concat(values)]
    /\ runVarsUnchanged

\* the bytes of the values written: a line feed, the quote, a letter, the two
\* bytes of a two-byte character and a byte no UTF-8 text holds
SqlByteSample == {10, 39, 65, 169, 195, 255}
SqlValues ==
    {Null} \cup {VNumber(n) : n \in NumberSample}
           \cup {value_from_bytes(b) : b \in SeqsUpTo(SqlByteSample, MaxLen)}

WriteSql ==
    /\ idle
    /\ \E v \in SqlValues : call' = [op |-> "write_sql", v |-> v, ret |-> write_sql(v)]
    /\ runVarsUnchanged

ValueFromString ==
    /\ idle
    /\ \E v \in StringValues :
         call' = [op |-> "value_from_string", v |-> v.s, ret |-> value_from_string(v.s)]
    /\ runVarsUnchanged

ValueFromBytes ==
    /\ idle
    /\ \E v \in ByteStrings :
         call' = [op |-> "value_from_bytes", v |-> v, ret |-> value_from_bytes(v)]
    /\ runVarsUnchanged

ValueFromOption ==
    /\ idle
    /\ \E v \in {None} \cup {Some(b) : b \in ByteStrings} :
         call' = [op |-> "value_from_option", v |-> v, ret |-> value_from_option(v)]
    /\ runVarsUnchanged

ValueFromNumber ==
    /\ idle
    /\ \E n \in IntNumber :
         call' = [op |-> "value_from_number", v |-> n, ret |-> value_from_number(n)]
    /\ runVarsUnchanged

ValueNull ==
    /\ idle
    /\ call' = [op |-> "null", ret |-> null]
    /\ runVarsUnchanged

InitValue == InitWith({DefaultArgs})

NextValue ==
    \/ TryFromI128
    \/ FromU64
    \/ FromI64
    \/ Neg
    \/ BinOp
    \/ PartialCmp
    \/ SqlCmp
    \/ TrySqlConcat
    \/ WriteSql
    \/ ValueFromString
    \/ ValueFromBytes
    \/ ValueFromOption
    \/ ValueFromNumber
    \/ ValueNull

SpecValue == InitValue /\ [][NextValue]_vars

(***************************************************************************)
(* Properties of the scheduler and the shard writer                        *)
(***************************************************************************)
\* the quantities the properties are stated in
K == args.files_count
LastFileInserts ==
    IF args.last_file_inserts_count.tag = "Some"
    THEN args.last_file_inserts_count.v ELSE args.inserts_count
LastInsertRows ==
    IF args.last_insert_rows_count.tag = "Some"
    THEN args.last_insert_rows_count.v ELSE args.rows_count
TotalRows ==
    (K - 1) * args.inserts_count * args.rows_count
        + (LastFileInserts - 1) * args.rows_count + LastInsertRows
RunSucceeded == run_pc = "returned" /\ res.tag = "Ok"

RECURSIVE row_nums(_)
\* the row numbers of the rows in a file, in the order written
row_nums(out) ==
    IF out = <<>> THEN <<>>
    ELSE IF Head(out).ev = "row" THEN <<Head(out).row_num>> \o row_nums(Tail(out))
    ELSE row_nums(Tail(out))
\* the main rows of shard s: table 1 gets one row per write_row
main_rows(s) == row_nums(fwe[s].files[1].out)
RECURSIVE all_main_rows(_)
all_main_rows(k) == IF k = 0 THEN <<>> ELSE all_main_rows(k - 1) \o main_rows(k)

\* C1: shard s starts at row (s-1)*inserts_count*rows_count + 1 and uses
\* consecutive row numbers, one per main row; when every shard has succeeded
\* the main-row numbers of the shards, in shard order, are 1, 2, ..., T with
\* T = (K-1)*inserts_count*rows_count + (last_file_inserts_count-1)*rows_count
\*     + last_insert_rows_count.
C1_RowNumbersPartition ==
    /\ \A s \in Shards :
         started(s) =>
            LET base == (s - 1) * args.inserts_count * args.rows_count
                used == main_rows(s)
            IN /\ \A k \in 1 .. Len(used) : used[k] = base + k
               /\ state[s].row_num = base + Len(used) + 1
    /\ RunSucceeded => all_main_rows(K) = [k \in 1 .. TotalRows |-> k]

C1_Witness ==
    /\ RunSucceeded
    /\ K >= 2
    /\ args.jobs >= 2
    /\ args.last_file_inserts_count.tag = "Some"
    /\ args.last_insert_rows_count.tag = "Some"
    /\ Len(all_main_rows(K)) = TotalRows

\* the seed and descriptor shard s is to get: the draws of the meta-RNG in
\* shard order, after those of the global-expression RNG
DrawsPerEngine == IF args.rng = "Step" THEN 2 ELSE 1
GlobalDraws == IF args.global_exprs THEN DrawsPerEngine ELSE 0
Draw(n) == <<meta_seed, n>>
ExpectedSeed(s) ==
    LET first == GlobalDraws + (s - 1) * DrawsPerEngine
    IN [seed |-> IF args.rng = "Step" THEN <<Draw(first), Draw(first + 1)>>
                 ELSE <<Draw(first)>>,
        pos |-> 0]
ExpectedShard(s) ==
    [seed |-> ExpectedSeed(s),
     info |-> [file_index |-> s,
               inserts_count |-> IF s = K THEN LastFileInserts ELSE args.inserts_count,
               last_insert_rows_count |-> IF s = K THEN LastInsertRows ELSE args.rows_count],
     row_num |-> (s - 1) * args.inserts_count * args.rows_count + 1]

RECURSIVE rows_alone(_, _)
\* n calls of write_row
rows_alone(x, n) == IF n = 0 THEN x ELSE rows_alone(write_row(x), n - 1)
RECURSIVE inserts_alone(_, _, _)
\* the INSERTs i.. of a shard run on its own
inserts_alone(x, d, i) ==
    IF i = d.info.inserts_count THEN x
    ELSE LET n == IF i = d.info.inserts_count - 1
                  THEN d.info.last_insert_rows_count ELSE args.rows_count
         IN inserts_alone(write_trailer(rows_alone(x, n)), d, i + 1)
\* what a shard of descriptor d writes to table t when it runs on its own
output_alone(d, t) ==
    inserts_alone([state |-> new_state(d.row_num, d.seed), fwe |-> new_fwe,
                   err |-> FALSE, fail |-> 0], d, 0).fwe.files[t].out

\* C2: the per-shard seeds are drawn from the meta-RNG in shard order, after
\* the global-expression RNG, all before any shard starts, and no shard draws
\* from the meta-RNG; so each shard's seed, start row and descriptor, and
\* what each shard has written when the run succeeds, are those of the
\* shard run on its own, whatever the pool size and the interleaving.
C2_SeedsIndependentOfSchedule ==
    /\ run_pc \in {"start", "globals"} =>
          /\ iv = <<>>
          /\ \A s \in Shards : ~started(s)
    /\ run_pc \notin {"start", "globals"} =>
          /\ Len(iv) = K
          /\ \A s \in Shards : iv[s] = ExpectedShard(s)
          /\ seeding_rng = [seed |-> meta_seed, pos |-> GlobalDraws + K * DrawsPerEngine]
    /\ \A s \in Shards : started(s) => state[s].rng.seed = ExpectedSeed(s).seed
    /\ RunSucceeded =>
          \A s \in Shards : \A t \in Tables :
             fwe[s].files[t].out = output_alone(ExpectedShard(s), t)

C2_Witness ==
    /\ K >= 2
    /\ args.jobs >= 2
    /\ args.global_exprs
    /\ pc(1) = "rows"
    /\ pc(2) = "progress"
    /\ state[1].rng.pos > 0

\* C3: when run completes with every shard successful, WRITE_PROGRESS, which
\* started at 0, equals the total main-row count T.
C3_ProgressAtCompletion == RunSucceeded => WRITE_PROGRESS = TotalRows

C3_Witness ==
    /\ RunSucceeded
    /\ K >= 2
    /\ LastInsertRows # args.rows_count
    /\ WRITE_PROGRESS = TotalRows
    /\ WRITE_PROGRESS > args.rows_count

(***************************************************************************)
(* Properties of Number and Value                                          *)
(***************************************************************************)
\* the 65-bit integer an I65 stands for, and the range of those integers
value_of(i) == 2 * i.msb + (IF i.lsbit THEN 1 ELSE 0)
I65_MIN == -(2 ^ MsbBits)
I65_MAX == 2 ^ MsbBits - 1
numeric_order(x, y) == IF x < y THEN "Less" ELSE IF x = y THEN "Equal" ELSE "Greater"

\* C4: for any two Int Numbers a and b, partial_cmp(a, b), and sql_cmp on the
\* two Number values holding them, return the numeric ordering of the 65-bit
\* integers 2*msb + lsbit.
C4_IntOrderIsNumeric ==
    /\ call.op = "partial_cmp" =>
          call.ret = Some(numeric_order(value_of(call.a.i), value_of(call.b.i)))
    /\ (call.op = "sql_cmp" /\ call.a.tag = "Number" /\ call.b.tag = "Number") =>
          call.ret = Ok(Some(numeric_order(value_of(call.a.n.i), value_of(call.b.n.i))))

\* the exact result of an operation on two integers
exact(op, x, y) ==
    CASE op = "add" -> x + y
      [] op = "sub" -> x - y
      [] op = "mul" -> x * y

\* C5: for Int Numbers a and b and each of +, - and *, the result is the Int
\* holding the exact result iff that result lies in [-2^64, 2^64); otherwise
\* it is the Float computed from the float projections of a and b.  It is
\* never an Int holding a wrapped or truncated value.
C5_ExactOrFloat ==
    call.op \in {"add", "sub", "mul"} =>
        LET e == exact(call.op, value_of(call.a.i), value_of(call.b.i))
        IN IF e >= I65_MIN /\ e <= I65_MAX
           THEN call.ret.tag = "Int" /\ value_of(call.ret.i) = e
           ELSE /\ call.ret.tag = "Float"
                /\ call.ret.f = round_f64(exact(call.op, f64_from(call.a), f64_from(call.b)))

C5_Witness ==
    /\ call.op = "add"
    /\ value_of(call.a.i) = I65_MAX
    /\ value_of(call.b.i) = 1
    /\ call.ret.tag = "Float"

\* C6: for every integer v in [-2^64, 2^64), I65::try_from_i128(v) is Some and
\* converting it back with to::<i128>() gives v; try_from_i128 is None for
\* every v outside the range; Number::from of a u64 or an i64 converts back to
\* the input.
C6_RoundTrip ==
    /\ call.op = "try_from_i128" =>
          IF call.v >= I65_MIN /\ call.v <= I65_MAX
          THEN call.ret.tag = "Some" /\ call.back = Some(call.v)
          ELSE call.ret.tag = "None"
    /\ call.op \in {"from_u64", "from_i64"} =>
          call.ret.tag = "Int" /\ call.back = Some(call.v)

C6_Witness ==
    /\ call.op = "try_from_i128"
    /\ call.v = I65_MIN + 1
    /\ call.ret.tag = "Some"
    /\ call.ret.v.lsbit
    /\ call.back = Some(call.v)

\* C7: negating the Int (msb, lsbit) gives the Int (msb', lsbit) with
\* msb' = -(msb + lsbit) in wrapping 64-bit arithmetic; its value is the exact
\* negation whenever that is representable in 65 bits.
C7_WrappingNeg ==
    call.op = "neg" =>
        /\ call.ret.tag = "Int"
        /\ call.ret.i.lsbit = call.a.i.lsbit
        /\ call.ret.i.msb \in I64
        /\ (call.ret.i.msb + call.a.i.msb + (IF call.a.i.lsbit THEN 1 ELSE 0))
              % (2 ^ MsbBits) = 0
        /\ (-value_of(call.a.i) >= I65_MIN /\ -value_of(call.a.i) <= I65_MAX) =>
              value_of(call.ret.i) = -value_of(call.a.i)

C7_Witness ==
    /\ call.op = "neg"
    /\ value_of(call.a.i) = I65_MAX
    /\ value_of(call.ret.i) = -I65_MAX

\* C25 as stated: for every Int n, -n is Number(0) - n, of the same variant
\* and the same value.
C25_NegIsSubFromZero ==
    call.op = "neg" => call.ret = bin_op("sub", number_from_int(0), call.a)

\* C25: for every Int n but the least, -2^64, -n is Number(0) - n, of the same
\* variant and the same value; for -2^64 the difference 0 - n is the Float
\* 2^64 and the negation is the Int -2^64, n itself.
C25_NegIsSubButForLeast ==
    call.op = "neg" =>
        LET sub == bin_op("sub", number_from_int(0), call.a)
        IN IF value_of(call.a.i) = I65_MIN
           THEN /\ call.ret = call.a
                /\ sub = N_Float(-I65_MIN)
           ELSE call.ret = sub /\ call.ret.tag = "Int"

C25_Witness ==
    /\ call.op = "neg"
    /\ value_of(call.a.i) = I65_MIN
    /\ call.ret = N_Int([lsbit |-> FALSE, msb |-> I64_MIN])

RECURSIVE rendered(_, _)
\* the bytes of the items k.. of a sequence of Ok values, Numbers as displayed
rendered(values, k) ==
    IF k > Len(values) THEN <<>>
    ELSE LET v == values[k].v
         IN (CASE v.tag = "Number" -> display(v.n)
               [] v.tag = "String" -> v.s
               [] v.tag = "Bytes" -> v.b) \o rendered(values, k + 1)
\* a call of try_sql_concat whose items are all Ok and not Null
ConcatOfValues ==
    /\ call.op = "try_sql_concat"
    /\ \A k \in 1 .. Len(call.values) :
          call.values[k].tag = "Ok" /\ call.values[k].v.tag # "Null"
HasBytes == \E k \in 1 .. Len(call.values) : call.values[k].v.tag = "Bytes"

\* C10 as stated: try_sql_concat over non-null Ok values returns a String only
\* if every input was a String or a Number; if any input is a Bytes value the
\* result is a Bytes value.
C10_BytesInBytesOut ==
    ConcatOfValues =>
        /\ call.ret.tag = "Ok"
        /\ call.ret.v.tag = "String" => ~HasBytes
        /\ HasBytes => call.ret.v.tag = "Bytes"

\* C10: try_sql_concat over non-null Ok values returns the concatenation of
\* the inputs' bytes, as a String iff those bytes are valid UTF-8 and as a
\* Bytes value otherwise: a String whenever every input is a String or a
\* Number, and a Bytes value only if some input is a Bytes value.
C10_StringIffUtf8 ==
    ConcatOfValues =>
        LET r == rendered(call.values, 1)
        IN /\ call.ret.tag = "Ok"
           /\ call.ret.v = IF is_valid_utf8(r) THEN VString(r) ELSE VBytes(r)
           /\ ~HasBytes => call.ret.v.tag = "String"
           /\ call.ret.v.tag = "Bytes" => HasBytes

C10_Witness ==
    /\ call.op = "try_sql_concat"
    /\ call.values = <<Ok(VBytes(<<195>>)), Ok(VBytes(<<169>>))>>
    /\ call.ret = Ok(VString(<<195, 169>>))

\* the operands of a sql_cmp call are a Number and a String or Bytes value
NumberWithText ==
    \/ call.a.tag = "Number" /\ call.b.tag \in {"String", "Bytes"}
    \/ call.b.tag = "Number" /\ call.a.tag \in {"String", "Bytes"}

\* C13: sql_cmp returns the InvalidArguments error, with the given function
\* tag and the cause "comparing values of different types", exactly when one
\* operand is a Number and the other a String or Bytes value; every other
\* pair of operands gives Ok.
C13_ErrorIffNumberWithText ==
    call.op = "sql_cmp" =>
        IF NumberWithText
        THEN call.ret = [tag |-> "Err", kind |-> "InvalidArguments",
                         cause |-> [name |-> "fn",
                                    cause |-> "comparing values of different types"]]
        ELSE call.ret.tag = "Ok"

C13_Witness ==
    /\ call.op = "sql_cmp"
    /\ call.a.tag = "Bytes"
    /\ call.b.tag = "Number"
    /\ call.ret.tag = "Err"

\* C14: for every Value x, sql_cmp(Null, x) and sql_cmp(x, Null) return Ok
\* with no ordering.
C14_NullComparesAbsent ==
    (call.op = "sql_cmp" /\ (call.a.tag = "Null" \/ call.b.tag = "Null")) =>
        /\ call.ret.tag = "Ok"
        /\ call.ret.v.tag = "None"

C14_Witness ==
    /\ call.op = "sql_cmp"
    /\ call.a.tag = "Number"
    /\ call.b.tag = "Null"
    /\ call.ret.tag = "Ok"
    /\ call.ret.v.tag = "None"

\* the number of single quotes among the first k - 1 bytes of s
quotes_before(s, k) == Cardinality({j \in 1 .. k - 1 : s[j] = 39})

\* C15: write_sql on String(s) writes a single quote, the bytes of s in order
\* with every single quote doubled and every other byte unchanged, and a
\* single quote.
C15_StringQuoted ==
    (call.op = "write_sql" /\ call.v.tag = "String") =>
        LET s == call.v.s
            out == call.ret
        IN /\ Len(out) = Len(s) + quotes_before(s, Len(s) + 1) + 2
           /\ out[1] = 39
           /\ out[Len(out)] = 39
           /\ \A k \in 1 .. Len(s) :
                 /\ out[1 + k + quotes_before(s, k)] = s[k]
                 /\ s[k] = 39 => out[2 + k + quotes_before(s, k)] = 39

C15_Witness ==
    /\ call.op = "write_sql"
    /\ call.v = VString(<<39, 65>>)
    /\ call.ret = <<39, 39, 39, 65, 39>>

\* the value of an uppercase hexadecimal digit, -1 for any other byte
hex_value(c) ==
    IF c \in 48 .. 57 THEN c - 48 ELSE IF c \in 65 .. 70 THEN c - 55 ELSE -1

\* C16: write_sql on Bytes(b) writes x', then exactly two uppercase
\* hexadecimal digits per byte of b in order with no separators, then a
\* single quote.
C16_BytesHex ==
    (call.op = "write_sql" /\ call.v.tag = "Bytes") =>
        LET b == call.v.b
            out == call.ret
        IN /\ Len(out) = 2 * Len(b) + 3
           /\ out[1] = 120
           /\ out[2] = 39
           /\ out[Len(out)] = 39
           /\ \A k \in 1 .. Len(b) :
                 /\ hex_value(out[2 * k + 1]) >= 0
                 /\ hex_value(out[2 * k + 2]) >= 0
                 /\ 16 * hex_value(out[2 * k + 1]) + hex_value(out[2 * k + 2]) = b[k]

C16_Witness ==
    /\ call.op = "write_sql"
    /\ call.v = VBytes(<<10, 255>>)
    /\ call.ret = <<120, 39, 48, 65, 70, 70, 39>>

\* the calls that produce a Value, and the Value produced
Constructors ==
    {"value_from_string", "value_from_bytes", "value_from_option",
     "value_from_number", "null"}
Produces ==
    \/ call.op \in Constructors
    \/ call.op = "try_sql_concat" /\ call.ret.tag = "Ok"
Produced == IF call.op = "try_sql_concat" THEN call.ret.v ELSE call.ret

\* C11: every Value produced by From<String>, From<Vec<u8>>, From<Option<T>>,
\* the numeric From, null or try_sql_concat is a Bytes value only if its
\* payload is not valid UTF-8 (and a String only if it is); From<Vec<u8>>
\* yields String exactly when the bytes are valid UTF-8, payload unchanged.
C11_BytesNeverUtf8 ==
    /\ Produces =>
          /\ Produced.tag \in {"Null", "Number", "String", "Bytes"}
          /\ Produced.tag = "Bytes" => ~is_valid_utf8(Produced.b)
          /\ Produced.tag = "String" => is_valid_utf8(Produced.s)
    /\ call.op = "value_from_bytes" =>
          /\ call.ret.tag = "String" <=> is_valid_utf8(call.v)
          /\ call.ret.tag = "String" => call.ret.s = call.v
          /\ call.ret.tag = "Bytes" => call.ret.b = call.v

C11_Witness ==
    /\ call.op = "value_from_bytes"
    /\ call.v = <<195, 169>>
    /\ call.ret = VString(<<195, 169>>)

(***************************************************************************)
(* Properties of the row expansion                                         *)
(***************************************************************************)
RECURSIVE rows_of(_)
\* the row events of a file, in the order written
rows_of(out) ==
    IF out = <<>> THEN <<>>
    ELSE IF Head(out).ev = "row" THEN <<Head(out)>> \o rows_of(Tail(out))
    ELSE rows_of(Tail(out))
\* the calls of write_row shard s has completed
rows_written(s) == state[s].row_num - iv[s].row_num
\* the template is a parent with one derived edge of constant count to a
\* child without derived edges
ParentChild ==
    /\ Len(tables) = 2
    /\ Len(tables[1].derived) = 1
    /\ tables[1].derived[1].child = 2
    /\ tables[1].derived[1].count.kind = "const"
    /\ tables[2].derived = <<>>
ChildCount == tables[1].derived[1].count.n

RECURSIVE scan(_, _, _)
\* reads the events k.. of a file as statements of the form
\*     header, row, (row_separator, row)*, trailer
\* from the position st; at "rows", n is the number of rows of the open
\* statement
scan(out, k, st) ==
    IF k > Len(out) \/ st.at = "bad" THEN st
    ELSE LET e == out[k].ev
             next ==
                 CASE st.at = "closed" /\ e = "header" -> [at |-> "header", n |-> 0]
                   [] st.at = "header" /\ e = "row" -> [at |-> "rows", n |-> 1]
                   [] st.at = "rows" /\ e = "row_separator" ->
                        [at |-> "separator", n |-> st.n]
                   [] st.at = "separator" /\ e = "row" -> [at |-> "rows", n |-> st.n + 1]
                   [] st.at = "rows" /\ e = "trailer" -> [at |-> "closed", n |-> 0]
                   [] OTHER -> [at |-> "bad", n |-> 0]
         IN scan(out, k + 1, next)
statements(out) == scan(out, 1, [at |-> "closed", n |-> 0])

\* C18: for every table the events written to its file are a sequence of
\* well-formed statements header, row, (row_separator, row)*, trailer, the
\* last one open with actual_rows rows while an INSERT is being written; after
\* the trailers of an INSERT every statement is closed and actual_rows is 0
\* for every table, so a shard that completes has written whole statements
\* only, and a table without rows in an INSERT gets no header and no trailer.
C18_WellFormedStatements ==
    \A s \in Shards :
        started(s) =>
            \A t \in Tables :
                LET st == statements(fwe[s].files[t].out)
                IN /\ st.at \in {"closed", "rows"}
                   /\ st.n = fwe[s].actual_rows[t]
                   /\ pc(s) \in {"commit", "progress", "done"} => st.at = "closed"

C18_Witness ==
    /\ args.template = "by_row"
    /\ pc(1) = "done"
    /\ iv[1].info.inserts_count = 2
    /\ args.rows_count = 2
    /\ Len(fwe[1].files[2].out) > 0
    /\ statements(fwe[1].files[2].out).at = "closed"

\* the sub_row_num of the rows of table t that shard s wrote for main row n,
\* in the order written
sub_rows(s, t, n) ==
    LET of_row(e) == e.row_num = n
        q == SelectSeq(rows_of(fwe[s].files[t].out), of_row)
    IN [k \in 1 .. Len(q) |-> q[k].sub_row_num]
\* the main rows shard s has written
main_row_nums(s) == iv[s].row_num .. (state[s].row_num - 1)

\* C19 as stated: within one shard and one main row, the successive rows of
\* every table have sub_row_num 1, 2, 3, ..., one more per invocation of
\* write_one_row on the table.
C19_SubRowsCountUp ==
    \A s \in Shards :
        started(s) =>
            \A t \in Tables : \A n \in main_row_nums(s) :
                LET q == sub_rows(s, t, n)
                IN \A k \in 1 .. Len(q) : q[k] = k

\* the tables with a derived edge to table t, and the edges
parents(t) == {p \in Tables : \E e \in 1 .. Len(tables[p].derived) : tables[p].derived[e].child = t}
edge_to(p, t) ==
    tables[p].derived[CHOOSE e \in 1 .. Len(tables[p].derived) : tables[p].derived[e].child = t]

\* C19: within one shard and one main row n, a table no edge leads to has one
\* row, with sub_row_num 1; the rows of a table derived from a parent with
\* count c are, for each row the parent has in that main row, c rows with
\* sub_row_num 1, 2, ..., c: the numbering increases by 1 per invocation
\* within one row of the parent and starts again at 1 for the next.
C19_SubRowsPerParentRow ==
    \A s \in Shards :
        started(s) =>
            \A t \in Tables : \A n \in main_row_nums(s) :
                LET q == sub_rows(s, t, n)
                IN IF parents(t) = {} THEN q = <<1>>
                   ELSE \A p \in parents(t) :
                           LET c == eval_count(edge_to(p, t).count, [row_num |-> n])
                           IN /\ Len(q) = Len(sub_rows(s, p, n)) * c
                              /\ \A k \in 1 .. Len(q) : q[k] = ((k - 1) % c) + 1

C19_Witness ==
    /\ args.template = "nested"
    /\ pc(1) = "done"
    /\ sub_rows(1, 2, 1) = <<1, 2>>
    /\ sub_rows(1, 3, 1) = <<1, 2, 1, 2>>

\* the rows of table t that the step adds to the file of shard s
new_rows(s, t) ==
    LET before == rows_of(fwe[s].files[t].out)
        after == rows_of(fwe'[s].files[t].out)
    IN SubSeq(after, Len(before) + 1, Len(after))

\* C20: a call of write_row that returns Ok evaluates every row expression it
\* evaluates, of the top-level tables and of the derived tables at any depth,
\* and every count expression with the row_num the state had when it was
\* called, and leaves row_num one higher, however many derived rows it wrote.
C20_RowNumFrame ==
    [][\A s \in Shards :
          (pc(s) = "rows" /\ shard'[s] # shard[s]) =>
              /\ state'[s].row_num = state[s].row_num + 1
              /\ \A t \in Tables :
                    LET q == new_rows(s, t)
                    IN /\ \A k \in 1 .. Len(q) : q[k].row_num = state[s].row_num
                       /\ parents(t) = {} => Len(q) = 1
                       /\ \A p \in parents(t) :
                            Len(q) = Len(new_rows(s, p))
                                       * eval_count(edge_to(p, t).count, state[s])]_vars

C20_Witness ==
    /\ args.template = "by_row"
    /\ pc(1) = "done"
    /\ state[1].row_num = iv[1].row_num + 2
    /\ sub_rows(1, 1, 1) = <<1>> /\ sub_rows(1, 2, 1) = <<1>>
    /\ sub_rows(1, 1, 2) = <<1>> /\ sub_rows(1, 2, 2) = <<1, 2>>

(***************************************************************************)
(* Properties of the end of the run                                        *)
(***************************************************************************)
\* the run has reached the scheduling of the shards
Scheduled == iv # <<>>
SomeShardFailed == \E s \in Shards : pc(s) = "failed"

\* C17: in every run that reaches shard scheduling, with or without a failed
\* shard, WRITE_FINISHED is set only after pool.install has returned, the
\* polling progress thread exits only after the flag is set, run returns only
\* after the thread has exited, and it returns the error iff a shard failed;
\* and every such run eventually returns with the progress thread exited.
C17_FinishJoinSurface ==
    /\ [](WRITE_FINISHED => run_pc \in {"finished", "returned"})
    /\ []((progress_pc = "exited" /\ ~args.quiet) => WRITE_FINISHED)
    /\ []((run_pc = "returned" /\ Scheduled) =>
            /\ WRITE_FINISHED
            /\ progress_pc = "exited"
            /\ res.tag = "Err" <=> SomeShardFailed)
    /\ Scheduled ~> (run_pc = "returned" /\ progress_pc = "exited")

C17_Witness ==
    /\ run_pc = "returned"
    /\ ~args.quiet
    /\ res.tag = "Err"
    /\ \E s \in Shards : pc(s) = "done"
    /\ WRITE_FINISHED
    /\ progress_pc = "exited"

(***************************************************************************)
(* Properties of the byte counters                                         *)
(***************************************************************************)
RECURSIVE out_len(_)
\* the bytes the format writer wrote for the events of a file
out_len(out) == IF out = <<>> THEN 0 ELSE event_len(Head(out)) + out_len(Tail(out))

\* per shard: the bytes its format writers wrote, the bytes counted and not
\* yet committed, and the bytes in its files on disk
opened(s) == fwe[s] # NoValue
format_bytes(s) ==
    IF opened(s)
    THEN sum_over([t \in Tables |-> out_len(fwe[s].files[t].out)], Len(tables))
    ELSE 0
uncommitted(s) == IF opened(s) THEN taken(fwe[s].files) ELSE 0
disk_bytes(s) ==
    IF opened(s)
    THEN sum_over([t \in Tables |-> on_disk(fwe[s].files[t])], Len(tables))
    ELSE 0
FormatBytes == sum_over([s \in Shards |-> format_bytes(s)], K)
Uncommitted == sum_over([s \in Shards |-> uncommitted(s)], K)
DiskBytes == sum_over([s \in Shards |-> disk_bytes(s)], K)

\* C8 as stated: WRITTEN_SIZE counts the bytes that reach the output files;
\* with compression enabled the committed counts are the compressed, on-disk
\* byte counts, so after a successful run WRITTEN_SIZE is the size of the
\* files.
C8_CountsOnDiskBytes ==
    (RunSucceeded /\ args.compression) => WRITTEN_SIZE = DiskBytes

\* C8: the byte-counting wrapper is the outermost writer, above the buffer and
\* the codec: WRITTEN_SIZE plus the counts not yet committed is always the
\* number of bytes the format writers have written, so after a successful run
\* WRITTEN_SIZE is the uncompressed size of the output, with compression
\* enabled or not.
C8_CountsFormatBytes ==
    /\ WRITTEN_SIZE + Uncommitted = FormatBytes
    /\ RunSucceeded => WRITTEN_SIZE = FormatBytes

C8_Witness ==
    /\ RunSucceeded
    /\ args.compression
    /\ K >= 2
    /\ WRITTEN_SIZE = FormatBytes
    /\ WRITTEN_SIZE # DiskBytes

\* C9 as stated: in every state of a run with data files enabled WRITTEN_SIZE
\* is at most the number of bytes already handed to the output files of all
\* shards.
C9_NeverAheadOfDisk == ~args.no_data => WRITTEN_SIZE <= DiskBytes

\* the files of shard s hold complete INSERT statements only
statements_closed(s) ==
    \A t \in Tables :
        /\ fwe[s].actual_rows[t] = 0
        /\ LET out == fwe[s].files[t].out
           IN out # <<>> => out[Len(out)].ev = "trailer"

\* C9: in every state WRITTEN_SIZE is at most the number of bytes the format
\* writers of all shards have written to their byte-counting writers, which
\* may still be held by the buffer or the codec above the file; a shard
\* commits its byte counts only after the INSERT terminator has been written,
\* and once it has committed nothing counted is left uncommitted.
C9_NeverAheadOfWriters ==
    /\ WRITTEN_SIZE <= FormatBytes
    /\ \A s \in Shards :
          /\ pc(s) \in {"commit", "progress"} => statements_closed(s)
          /\ pc(s) \in {"progress", "done"} => uncommitted(s) = 0

C9_Witness ==
    /\ ~args.no_data
    /\ ~args.compression
    /\ \E s \in Shards : pc(s) = "progress"
    /\ WRITTEN_SIZE > DiskBytes
    /\ WRITTEN_SIZE <= FormatBytes

(***************************************************************************)
(* Properties of a shard that fails                                        *)
(***************************************************************************)
\* the events the step adds to the file of table t of shard s
new_events(s, t) ==
    LET before == fwe[s].files[t].out
        after == fwe'[s].files[t].out
    IN SubSeq(after, Len(before) + 1, Len(after))
\* the number of events of the kinds in evs the step adds to the files of s
RECURSIVE count_new(_, _, _)
count_new(s, evs, t) ==
    IF t = 0 THEN 0
    ELSE LET q == new_events(s, t)
         IN Cardinality({k \in 1 .. Len(q) : q[k].ev \in evs}) + count_new(s, evs, t - 1)

\* the step in which shard s returns an error
fails(s) == pc(s) # "failed" /\ pc(s)' = "failed"

\* C21: the step in which a shard returns an error, from the opening of its
\* files, the evaluation of a row or of a derived count, or the write of the
\* trailer, writes no trailer and nothing after the failing evaluation (at
\* most one header or separator is left without its row), does not count the
\* main row, commits nothing to WRITTEN_SIZE and adds nothing to
\* WRITE_PROGRESS; the shard takes no step afterwards; and a run that returns
\* with a failed shard returns an error.
C21_ShardStopsAtError ==
    /\ [][\A s \in Shards :
            /\ fails(s) =>
                 /\ WRITTEN_SIZE' = WRITTEN_SIZE
                 /\ WRITE_PROGRESS' = WRITE_PROGRESS
                 /\ shard'[s].i = shard[s].i
                 /\ opened(s) =>
                      /\ state'[s].row_num = state[s].row_num
                      /\ \A t \in Tables :
                           SubSeq(fwe'[s].files[t].out, 1, Len(fwe[s].files[t].out))
                               = fwe[s].files[t].out
                      /\ count_new(s, {"trailer"}, Len(tables)) = 0
                      /\ LET rows == count_new(s, {"row"}, Len(tables))
                             opens == count_new(s, {"header", "row_separator"}, Len(tables))
                         IN rows <= opens /\ opens <= rows + 1
            /\ pc(s) = "failed" =>
                 /\ shard'[s] = shard[s]
                 /\ fwe'[s] = fwe[s]
                 /\ state'[s] = state[s]]_vars
    /\ []((run_pc = "returned" /\ SomeShardFailed) => res.tag = "Err")

\* a shard has failed at the count of the derived edge, after the parent's
\* row and before any row of the child, and run has returned the error
C21_Witness ==
    /\ args.template = "parent"
    /\ pc(1) = "failed"
    /\ opened(1)
    /\ run_pc = "returned"
    /\ res.tag = "Err"
    /\ shard[1].i = 0
    /\ Len(rows_of(fwe[1].files[1].out)) = 1
    /\ fwe[1].files[2].out = <<>>
    /\ WRITTEN_SIZE = 0 /\ WRITE_PROGRESS = 0

\* pool.install has returned
pool_returned == run_pc \in {"installed", "finished", "returned"}
\* shard s has written every INSERT of its file
completed(s) ==
    /\ pc(s) = "done"
    /\ shard[s].i = iv[s].info.inserts_count
    /\ uncommitted(s) = 0
    /\ \A t \in Tables : statements(fwe[s].files[t].out).at = "closed"

\* C22: once pool.install has returned with a failed shard, every other shard
\* that was started is no longer running: it has either returned an error of
\* its own or written every INSERT of its file, each with its trailer and its
\* counts committed; and no step of a shard stops or changes another shard.
C22_OthersFinishTheirInsert ==
    /\ []((pool_returned /\ SomeShardFailed) =>
             \A s \in Shards : started(s) => (pc(s) = "failed" \/ completed(s)))
    /\ [][\A s \in Shards : \A t \in Shards \ {s} :
             shard'[s] # shard[s] =>
                 (shard'[t] = shard[t] /\ fwe'[t] = fwe[t] /\ state'[t] = state[t])]_vars

\* run has returned the error of shard 1, which failed after it had opened
\* its files, and shard 2 has written its whole file
C22_Witness ==
    /\ K = 2
    /\ run_pc = "returned"
    /\ pc(1) = "failed" /\ opened(1)
    /\ completed(2)
    /\ Len(fwe[2].files[1].out) > 0

(***************************************************************************)
(* Properties of the three atomics                                         *)
(***************************************************************************)
\* C23: WRITE_FINISHED, false when run starts, changes only in the step of
\* run that follows the return of pool.install, from false to true, and run
\* takes that step once; the flag is never true while a shard is running, and
\* it is true when a run that scheduled its shards returns.
C23_FinishedAfterShards ==
    /\ [][WRITE_FINISHED' # WRITE_FINISHED =>
             /\ ~WRITE_FINISHED /\ WRITE_FINISHED'
             /\ run_pc = "installed" /\ run_pc' = "finished"
             /\ shard' = shard
             /\ \A s \in Shards : ~running(s)]_vars
    /\ [][(run_pc = "installed" /\ run_pc' # run_pc) =>
             (~WRITE_FINISHED /\ WRITE_FINISHED')]_vars
    /\ [][run_pc' = "installed" => run_pc \in {"install", "installed"}]_vars
    /\ [](WRITE_FINISHED => \A s \in Shards : ~running(s))
    /\ []((run_pc = "returned" /\ Scheduled) => WRITE_FINISHED)

\* the flag is set after two shards have run on two workers, one to the end
\* of its file and one to an error
C23_Witness ==
    /\ WRITE_FINISHED
    /\ run_pc = "finished"
    /\ K = 2 /\ args.jobs = 2
    /\ pc(1) = "done" /\ pc(2) = "failed" /\ opened(2)

(***************************************************************************)
(* Properties of the counts of derived edges                               *)
(***************************************************************************)
RECURSIVE sum_seq(_)
sum_seq(q) == IF q = <<>> THEN 0 ELSE Head(q) + sum_seq(Tail(q))

\* C26: the count expression of every derived edge of table p is evaluated
\* with the sub_row_num p's own row was evaluated with.  For an edge whose
\* count is subrownum, the rows of the child in one main row are then as many
\* as the sum of the sub_row_num of the parent's rows in that main row.
C26_CountSeesOwnSubRowNum ==
    \A s \in Shards :
        started(s) =>
            \A t \in Tables : \A p \in parents(t) : \A n \in main_row_nums(s) :
                edge_to(p, t).count.kind = "sub_row_num" =>
                    Len(sub_rows(s, t, n)) = sum_seq(sub_rows(s, p, n))

(***************************************************************************)
(* Properties of WRITE_PROGRESS                                            *)
(***************************************************************************)
\* the number of "trailer" events in out
RECURSIVE trailers(_)
trailers(out) ==
    IF out = <<>> THEN 0
    ELSE (IF Head(out).ev = "trailer" THEN 1 ELSE 0) + trailers(Tail(out))
\* the number of rows in the first m statements of out
RECURSIVE rows_in(_, _)
rows_in(out, m) ==
    IF m = 0 \/ out = <<>> THEN 0
    ELSE CASE Head(out).ev = "row" -> 1 + rows_in(Tail(out), m)
           [] Head(out).ev = "trailer" -> rows_in(Tail(out), m - 1)
           [] OTHER -> rows_in(Tail(out), m)
\* the main rows of shard s in the INSERTs whose trailer is written and whose
\* bytes are committed: those of the main table's file, but for the last
\* statement while its bytes are still in the counters of the files
closed_rows(s) ==
    IF ~opened(s) THEN 0
    ELSE LET out == fwe[s].files[1].out
             pending == /\ out # <<>>
                        /\ out[Len(out)].ev = "trailer"
                        /\ uncommitted(s) > 0
         IN rows_in(out, trailers(out) - (IF pending THEN 1 ELSE 0))
ClosedRows == sum_over([s \in Shards |-> closed_rows(s)], K)
\* the rows of the INSERTs of the shards that are between the addition to
\* WRITTEN_SIZE and the addition to WRITE_PROGRESS
between_adds(s) == IF pc(s) = "progress" THEN rows_count(s) ELSE 0
BetweenAdds == sum_over([s \in Shards |-> between_adds(s)], K)

\* C27 as stated: in every state of a run, failing or not, WRITE_PROGRESS is at
\* most the total T and equals the number of main rows of the INSERTs whose
\* trailers have been written and whose bytes have been committed.
C27_ProgressIsClosedRows ==
    /\ WRITE_PROGRESS <= total_rows
    /\ Scheduled => WRITE_PROGRESS = ClosedRows

\* C27: in every state of a run, failing or not, WRITE_PROGRESS is at most the
\* total T and at most the number of main rows of the INSERTs whose trailers
\* have been written and whose bytes have been committed; it is that number
\* less the rows of the INSERTs of the shards that have added their bytes to
\* WRITTEN_SIZE and not yet their rows to WRITE_PROGRESS.
C27_ProgressBehindClosedRows ==
    /\ WRITE_PROGRESS <= total_rows
    /\ Scheduled =>
          /\ WRITE_PROGRESS <= ClosedRows
          /\ ClosedRows <= total_rows
          /\ WRITE_PROGRESS = ClosedRows - BetweenAdds

\* shard 2 has failed, and shard 1 has committed the bytes of its second INSERT
\* and not yet added its rows
C27_Witness ==
    /\ K = 2
    /\ pc(2) = "failed" /\ opened(2)
    /\ pc(1) = "progress" /\ shard[1].i = 1
    /\ WRITE_PROGRESS > 0
    /\ WRITE_PROGRESS < ClosedRows

(***************************************************************************)
(* Properties of the polls of the progress bar thread                      *)
(***************************************************************************)
\* the step is the load of WRITE_PROGRESS, of WRITTEN_SIZE
loads_rows ==
    \/ progress_pc = "body" /\ progress_pc' = "rows_loaded"
    \/ progress_pc = "size_loaded" /\ progress_pc' = "test"
loads_size ==
    \/ progress_pc = "body" /\ progress_pc' = "size_loaded"
    \/ progress_pc = "rows_loaded" /\ progress_pc' = "test"

\* C24: no step of any thread, under any interleaving of the shards, makes
\* WRITTEN_SIZE or WRITE_PROGRESS smaller; and every load of the progress bar
\* thread returns a value that is not smaller than the one its previous load
\* of the same counter returned, so that neither bar ever moves backwards.
C24_CountersMonotone ==
    [][/\ WRITTEN_SIZE' >= WRITTEN_SIZE
       /\ WRITE_PROGRESS' >= WRITE_PROGRESS
       /\ loads_rows =>
            /\ poll'.rows_count = Some(WRITE_PROGRESS)
            /\ poll.rows_count # None => poll'.rows_count.v >= poll.rows_count.v
       /\ loads_size =>
            /\ poll'.written_size = Some(WRITTEN_SIZE)
            /\ poll.written_size # None => poll'.written_size.v >= poll.written_size.v
       /\ poll'.pb.cur >= poll.pb.cur
       /\ poll'.speed_bar.cur >= poll.speed_bar.cur]_vars

\* with two shards writing, a poll has loaded a byte count larger than the
\* one an earlier poll has set the size bar to, and is about to load a row
\* count larger than the one that poll loaded
C24_Witness ==
    /\ K = 2 /\ args.jobs = 2
    /\ progress_pc = "size_loaded"
    /\ poll.speed_bar.cur > 0
    /\ poll.written_size.v > poll.speed_bar.cur
    /\ poll.rows_count.v > 0
    /\ WRITE_PROGRESS > poll.rows_count.v

\* the bytes of the first m statements of out
RECURSIVE bytes_in(_, _)
bytes_in(out, m) ==
    IF m = 0 \/ out = <<>> THEN 0
    ELSE event_len(Head(out))
           + bytes_in(Tail(out), IF Head(out).ev = "trailer" THEN m - 1 ELSE m)
\* the bytes of the first m INSERTs of shard s, in all its files (every table
\* of the templates polled has rows in every INSERT)
insert_bytes(s, m) ==
    IF m = 0 THEN 0
    ELSE sum_over([t \in Tables |-> bytes_in(fwe[s].files[t].out, m)], Len(tables))
\* the bytes committed for the INSERTs whose rows the row count loaded by
\* poll p includes
counted_bytes(p) == sum_over([s \in Shards |-> insert_bytes(s, p.counted[s])], K)
\* the step ends a poll: both values are loaded and the bars are set
ends_poll == progress_pc \in {"rows_loaded", "size_loaded"} /\ progress_pc' = "test"
\* a poll has ended
polled == poll.rows_count # None /\ poll.written_size # None
                /\ progress_pc \in {"test", "body", "exited"}

====
